---- MODULE Spec2Model ----
(***************************************************************************)
(* Model of the test-plan generator (generate-tests.js).                   *)
(*                                                                         *)
(* The two input documents (flagData, testDefs) are read-only; the model   *)
(* fixes a flag catalog, a criteria catalog, a role catalog, a terminology *)
(* table and a scenario library, and draws the customer and the customer's *)
(* configuration from bounded sets in Init.  generateTestPlan is a loop    *)
(* over the scenario library followed by a loop over the customer's        *)
(* products; each loop iteration is one action.                            *)
(*                                                                         *)
(* Strings are TLA+ strings; Len, SubSeq and \o act on them character by   *)
(* character, so String.includes and String.replace are modelled on the    *)
(* characters of the text.                                                 *)
(***************************************************************************)
EXTENDS Integers, Sequences, FiniteSets, TLC

VARIABLES
    customer,        \* the customer record handed to generateTestPlan
    customerConfig,  \* flagData.configurations[customer.key]
    pc,              \* position in main / generateTestPlan
    scenarioIdx,     \* index of the next scenario of testDefs.scenarios
    productIdx,      \* index of the next product of customer.products
    stepNum,         \* the running step counter of generateTestPlan
    rows,            \* the rows pushed so far (field tuples, before csvRow)
    csv,             \* the value generateTestPlan returned last
    written,         \* the content of test-plan-{customer}.csv on disk
    runs,            \* how many times the generator has been started
    run,             \* the process running main: arguments, loop, files, exit
    call             \* one application of a pure function: inputs, results

vars == <<customer, customerConfig, pc, scenarioIdx, productIdx, stepNum,
          rows, csv, written, runs, run, call>>

-----------------------------------------------------------------------------
(* Bounds *)

\* how many times the generator is started on the same inputs
MaxRuns == 2
\* number of criteria of the longest criteria list of the criteria catalog
MaxCriteria == 2
\* number of steps of the longest setup / core step list of a scenario
MaxSteps == 2

-----------------------------------------------------------------------------
(* Generic helpers: JavaScript built-ins used by the source *)

\* JavaScript's undefined for optional values: an optional value is a record
\* with the field `some`, and the field `val` when it is present.
None == [some |-> FALSE]
Some(v) == [some |-> TRUE, val |-> v]

\* Array.prototype.includes
SeqIncludes(seq, x) == \E i \in 1..Len(seq) : seq[i] = x

\* String.prototype.includes
StrIncludes(s, t) ==
    \E i \in 1..(Len(s) - Len(t) + 1) : SubSeq(s, i, i + Len(t) - 1) = t

\* Array.prototype.join
RECURSIVE JoinStr(_, _)
JoinStr(seq, sep) ==
    IF seq = <<>> THEN ""
    ELSE IF Len(seq) = 1 THEN seq[1]
    ELSE seq[1] \o sep \o JoinStr(Tail(seq), sep)

\* the replacement text of one match of String.prototype.replace: in a
\* string replacement $$ is a dollar sign, $& the matched text, $` the text
\* before the match and $' the text after it; any other character, a dollar
\* sign before anything else included, stands for itself
RECURSIVE Expand(_, _, _, _, _)
Expand(val, k, s, at, n) ==
    IF k > Len(val) THEN ""
    ELSE LET two == IF k < Len(val) THEN SubSeq(val, k, k + 1) ELSE ""
         IN  CASE two = "$$" -> "$" \o Expand(val, k + 2, s, at, n)
               [] two = "$&" ->
                    SubSeq(s, at, at + n - 1) \o Expand(val, k + 2, s, at, n)
               [] two = "$`" ->
                    SubSeq(s, 1, at - 1) \o Expand(val, k + 2, s, at, n)
               [] two = "$'" ->
                    SubSeq(s, at + n, Len(s)) \o Expand(val, k + 2, s, at, n)
               [] OTHER -> SubSeq(val, k, k) \o Expand(val, k + 1, s, at, n)

\* String.prototype.replace with a global literal pattern, from position
\* `from` of s on: every non-overlapping occurrence, left to right, the
\* replacement not rescanned
RECURSIVE ReplaceFrom(_, _, _, _)
ReplaceFrom(s, from, pat, val) ==
    LET hits == { i \in from..(Len(s) - Len(pat) + 1) :
                    SubSeq(s, i, i + Len(pat) - 1) = pat }
    IN  IF hits = {} THEN SubSeq(s, from, Len(s))
        ELSE LET first == CHOOSE i \in hits : \A j \in hits : i <= j
             IN  SubSeq(s, from, first - 1)
                 \o (IF StrIncludes(val, "$")
                     THEN Expand(val, 1, s, first, Len(pat)) ELSE val)
                 \o ReplaceFrom(s, first + Len(pat), pat, val)

\* mutant: the pattern is not global, only the first occurrence is replaced
ReplaceAll_First(s, pat, val) ==
    LET hits == { i \in 1..(Len(s) - Len(pat) + 1) :
                    SubSeq(s, i, i + Len(pat) - 1) = pat }
    IN  IF hits = {} THEN s
        ELSE LET first == CHOOSE i \in hits : \A j \in hits : i <= j
             IN  SubSeq(s, 1, first - 1)
                 \o (IF StrIncludes(val, "$")
                     THEN Expand(val, 1, s, first, Len(pat)) ELSE val)
                 \o SubSeq(s, first + Len(pat), Len(s))


ReplaceAll(s, pat, val) == ReplaceFrom(s, 1, pat, val)

\* ToString of a replacement value: undefined reads "undefined"
StringOf(opt) == IF opt.some THEN opt.val ELSE "undefined"

\* x || d for an optional string: the default when x is undefined or ""
OrElse(opt, d) == IF opt.some /\ opt.val # "" THEN opt.val ELSE d

-----------------------------------------------------------------------------
(* flagData: the feature-flag document *)

\* flagData.products, in catalog order
Products ==
    << [key |-> "sepsis", name |-> "Sepsis"],
       [key |-> "deterioration", name |-> "Deterioration"] >>

\* applicableProducts: the sentinel "all" or an explicit list of product keys
AllProducts == [all |-> TRUE, list |-> <<>>]
OnlyProducts(list) == [all |-> FALSE, list |-> list]

\* flagData.flagDefinitions, as Object.entries enumerates it: categories in
\* insertion order, each with its flag definitions in order
FlagDefinitions ==
    << [category |-> "assessment_writeback",
        flags |-> << [key |-> "nurse_writeback_flowsheet",
                      name |-> "Nurse Writeback, \"auto\"",
                      applicableProducts |-> AllProducts],
                     [key |-> "sepsis_deescalation",
                      name |-> "Sepsis De-escalation",
                      applicableProducts |-> OnlyProducts(<<"sepsis">>)] >>],
       [category |-> "documentation",
        flags |-> << [key |-> "nursing_documentation",
                      name |-> "Nursing Documentation",
                      applicableProducts |-> AllProducts] >>],
       [category |-> "bundle_manager",
        flags |-> << [key |-> "bundle_tracking",
                      name |-> "Bundle Tracking",
                      applicableProducts |-> OnlyProducts(<<"sepsis">>)] >>],
       [category |-> "suppression",
        flags |-> << [key |-> "code_status_suppression",
                      name |-> "Code Status Suppression",
                      applicableProducts |-> AllProducts] >>],
       [category |-> "other",
        flags |-> << [key |-> "neutropenic_fever_enabled",
                      name |-> "Neutropenic Fever Model",
                      applicableProducts |-> AllProducts] >>] >>

\* every flag key of the catalog
FlagKeys ==
    UNION { { FlagDefinitions[c].flags[i].key :
                i \in 1..Len(FlagDefinitions[c].flags) } :
            c \in 1..Len(FlagDefinitions) }

-----------------------------------------------------------------------------
(* testDefs: the test-definition document *)

\* testDefs.roles
Roles == [nurse |-> [label |-> "RN"], provider |-> [label |-> "MD"]]

\* testDefs.ehrTerminology: vendor -> term name -> optional term. Two
\* vendors with plain terms; a vendor whose mapping lacks a term; a vendor
\* with a term that spells a token name; a vendor with a term that holds a
\* token; a vendor with a term that holds a replacement pattern
EhrTerminology ==
    [Epic   |-> [flowsheet |-> Some("Flowsheet"),
                 patientList |-> Some("Patient List"),
                 alertFlag |-> Some("BPA"), noteType |-> Some("Note"),
                 orderEntry |-> Some("Orders"),
                 storyboard |-> Some("Storyboard")],
     Cerner |-> [flowsheet |-> Some("iView"),
                 patientList |-> Some("Tracking Board"),
                 alertFlag |-> Some("Alert"), noteType |-> Some("PowerNote"),
                 orderEntry |-> Some("PowerOrders"),
                 storyboard |-> Some("Banner")],
     Athena |-> [flowsheet |-> Some("Grid"),
                 patientList |-> Some("Census"),
                 alertFlag |-> None, noteType |-> Some("Note"),
                 orderEntry |-> Some("Orders"),
                 storyboard |-> Some("Header")],
     Allscripts |-> [flowsheet |-> Some("flowsheet"),
                     patientList |-> Some("Census"),
                     alertFlag |-> Some("Alert"),
                     noteType |-> Some("Note"),
                     orderEntry |-> Some("Orders"),
                     storyboard |-> Some("Storyboard")],
     Nextgen |-> [flowsheet |-> Some("Grid"),
                  patientList |-> Some("Census"),
                  alertFlag |-> Some("{flowsheet} alert"),
                  noteType |-> Some("Note"),
                  orderEntry |-> Some("Orders"),
                  storyboard |-> Some("Header")],
     Paragon |-> [flowsheet |-> Some("Grid"),
                  patientList |-> Some("Census"),
                  alertFlag |-> Some("$& alert"),
                  noteType |-> Some("Note"),
                  orderEntry |-> Some("Orders"),
                  storyboard |-> Some("Header")]]

\* role keys used by steps and criteria: a known role, no role, an unknown
\* role, another known role
RoleCycle == <<"nurse", "", "pharmacist", "provider">>
RoleAt(i) == RoleCycle[((i - 1) % Len(RoleCycle)) + 1]

\* a criteria list of n criteria {role, step}
CriteriaList(tag, n) ==
    [i \in 1..n |->
        [role |-> RoleAt(i),
         step |-> "See {flowsheet} " \o tag \o ToString(i) \o " {diagnosis}"]]

\* testDefs.flagTestCriteria: flag key -> optional whenEnabled, optional
\* whenDisabled; a flag without an entry maps to None
FlagTestCriteria(flagKey) ==
    CASE flagKey = "nurse_writeback_flowsheet" ->
            Some([whenEnabled |-> Some(CriteriaList("nwf+", MaxCriteria)),
                  whenDisabled |-> Some(CriteriaList("nwf-", 1))])
      [] flagKey = "sepsis_deescalation" ->
            Some([whenEnabled |-> Some(<<>>),
                  whenDisabled |-> Some(CriteriaList("sd-", MaxCriteria))])
      [] flagKey = "bundle_tracking" ->
            Some([whenEnabled |-> Some(CriteriaList("bt+", 1)),
                  whenDisabled |-> None])
      [] flagKey = "nursing_documentation" ->
            Some([whenEnabled |-> None, whenDisabled |-> Some(<<>>)])
      [] flagKey = "code_status_suppression" ->
            Some([whenEnabled |-> None,
                  whenDisabled |-> Some(CriteriaList("css-", 1))])
      [] OTHER -> None

\* a step list of n steps {role, action, expected}
StepList(tag, n) ==
    [i \in 1..n |->
        [role |-> RoleAt(i + 1),
         action |-> tag \o ToString(i) \o " {chiefComplaint} in {flowsheet}",
         expected |-> "{labOrders}; {alertFlag}"]]

\* patient profiles: a full one, and one with the optional fields missing
FullProfile ==
    [age |-> Some("67"), sex |-> Some("F"), location |-> Some("ED"),
     chiefComplaint |-> Some("fever, chills"),
     diagnosis |-> Some("sepsis"),
     labs |-> Some([orders |-> Some(<<"CBC", "lactate">>),
                    results |-> Some("WBC 18")]),
     problemList |-> Some("CKD"), medicalHistory |-> Some("DM2"),
     antibiotics |-> Some("cefepime")]
SparseProfile ==
    [age |-> Some("54"), sex |-> Some("M"), location |-> Some("ICU"),
     chiefComplaint |-> None, diagnosis |-> Some("septic shock"),
     labs |-> None, problemList |-> None, medicalHistory |-> None,
     antibiotics |-> None]

\* testDefs.scenarios, in catalog order
Scenarios ==
    << [key |-> "sepsis_ed_bundle", name |-> "Sepsis ED",
        product |-> "sepsis", description |-> "ED flow",
        workflow |-> "triage, bundle",
        patientProfile |-> Some(FullProfile),
        requiredFlags |-> Some(<<"bundle_tracking">>),
        setupSteps |-> StepList("S", MaxSteps),
        coreTestSteps |-> StepList("C", 1)],
       [key |-> "abx_workflow", name |-> "Antibiotics",
        product |-> "deterioration", description |-> "abx",
        workflow |-> "order",
        patientProfile |-> None,
        requiredFlags |-> Some(<<"nurse_writeback_flowsheet">>),
        setupSteps |-> StepList("S", 1),
        coreTestSteps |-> StepList("C", 1)],
       [key |-> "septic_shock_rnf_to_icu", name |-> "Shock to ICU",
        product |-> "sepsis", description |-> "transfer",
        workflow |-> "RNF, ICU",
        patientProfile |-> Some(SparseProfile),
        requiredFlags |-> None,
        setupSteps |-> <<>>,
        coreTestSteps |-> StepList("C", MaxSteps)],
       [key |-> "deterioration_rounding", name |-> "Rounding",
        product |-> "deterioration", description |-> "rounds",
        workflow |-> "round",
        patientProfile |-> None,
        requiredFlags |-> Some(<<>>),
        setupSteps |-> StepList("S", 1),
        coreTestSteps |-> <<>>],
       [key |-> "no_sepsis_no_infection", name |-> "No Sepsis",
        product |-> "sepsis", description |-> "negative",
        workflow |-> "dismiss",
        patientProfile |-> None,
        requiredFlags |-> Some(<<>>),
        setupSteps |-> <<>>,
        coreTestSteps |-> StepList("C", 1)],
       [key |-> "presepsis_education", name |-> "Education",
        product |-> "sepsis", description |-> "teach",
        workflow |-> "teach",
        patientProfile |-> None,
        requiredFlags |-> Some(<<"nurse_writeback_flowsheet",
                                 "sepsis_deescalation">>),
        setupSteps |-> <<>>,
        coreTestSteps |-> StepList("C", 1)],
       [key |-> "comfort_care_suppression", name |-> "Comfort Care",
        product |-> "sepsis", description |-> "suppress",
        workflow |-> "suppress",
        patientProfile |-> None,
        requiredFlags |-> Some(<<"code_status_suppression">>),
        setupSteps |-> <<>>,
        coreTestSteps |-> StepList("C", 1)] >>

-----------------------------------------------------------------------------
(* CSV helpers *)

\* the first cell of a row is "" or the number stepNum, which String(val)
\* renders in decimal
NoNum == ""
Num(n) == ToString(n)

\* mutant: the field is wrapped in quotes, its own quotes left single
csvEscape_NoDoubling(s) ==
    IF StrIncludes(s, ",") \/ StrIncludes(s, "\"") \/ StrIncludes(s, "\n")
    THEN "\"" \o s \o "\""
    ELSE s


csvEscape(s) ==
    IF StrIncludes(s, ",") \/ StrIncludes(s, "\"") \/ StrIncludes(s, "\n")
    THEN "\"" \o ReplaceAll(s, "\"", "\"\"") \o "\""
    ELSE s

csvRow(values) ==
    JoinStr([i \in 1..Len(values) |-> csvEscape(values[i])], ",")

-----------------------------------------------------------------------------
(* Resolvers *)

\* mutant: a vendor the table lacks leaves the text as it is
resolveEhrTerms_NoFallback(text, ehr) ==
    IF ehr \notin DOMAIN EhrTerminology THEN text
    ELSE LET terms == EhrTerminology[ehr]
             t1 == ReplaceAll(text, "{flowsheet}", StringOf(terms.flowsheet))
             t2 == ReplaceAll(t1, "{patientList}", StringOf(terms.patientList))
             t3 == ReplaceAll(t2, "{alertFlag}", StringOf(terms.alertFlag))
             t4 == ReplaceAll(t3, "{noteType}", StringOf(terms.noteType))
             t5 == ReplaceAll(t4, "{orderEntry}", StringOf(terms.orderEntry))
         IN  ReplaceAll(t5, "{storyboard}", StringOf(terms.storyboard))


\* mutant: the two token namespaces overlap, {diagnosis} is also replaced
\* as a terminology token
resolveEhrTerms_SharedToken(text, ehr) ==
    LET terms == IF ehr \in DOMAIN EhrTerminology
                 THEN EhrTerminology[ehr] ELSE EhrTerminology["Epic"]
        t1 == ReplaceAll(text, "{flowsheet}", StringOf(terms.flowsheet))
        t2 == ReplaceAll(t1, "{patientList}", StringOf(terms.patientList))
        t3 == ReplaceAll(t2, "{alertFlag}", StringOf(terms.alertFlag))
        t4 == ReplaceAll(t3, "{noteType}", StringOf(terms.noteType))
        t5 == ReplaceAll(t4, "{orderEntry}", StringOf(terms.orderEntry))
        t6 == ReplaceAll(t5, "{storyboard}", StringOf(terms.storyboard))
    IN  ReplaceAll(t6, "{diagnosis}", StringOf(terms.noteType))


resolveEhrTerms(text, ehr) ==
    LET terms == IF ehr \in DOMAIN EhrTerminology
                 THEN EhrTerminology[ehr] ELSE EhrTerminology["Epic"]
        t1 == ReplaceAll(text, "{flowsheet}",
                         StringOf(terms.flowsheet))
        t2 == ReplaceAll(t1, "{patientList}",
                         StringOf(terms.patientList))
        t3 == ReplaceAll(t2, "{alertFlag}",
                         StringOf(terms.alertFlag))
        t4 == ReplaceAll(t3, "{noteType}",
                         StringOf(terms.noteType))
        t5 == ReplaceAll(t4, "{orderEntry}",
                         StringOf(terms.orderEntry))
    IN  ReplaceAll(t5, "{storyboard}",
                         StringOf(terms.storyboard))

roleLabel(roleKey) ==
    IF roleKey = "" THEN "--"
    ELSE IF roleKey \in DOMAIN Roles THEN Roles[roleKey].label
    ELSE roleKey

\* profile.labs?.orders?.join(", ") and profile.labs?.results
LabOrdersOf(profile) ==
    IF profile.labs.some /\ profile.labs.val.orders.some
    THEN Some(JoinStr(profile.labs.val.orders.val, ", ")) ELSE None
LabResultsOf(profile) ==
    IF profile.labs.some THEN profile.labs.val.results ELSE None

\* scenario.patientProfile || {}
EmptyProfile ==
    [age |-> None, sex |-> None, location |-> None, chiefComplaint |-> None,
     diagnosis |-> None, labs |-> None, problemList |-> None,
     medicalHistory |-> None, antibiotics |-> None]

\* mutant: a missing profile value prints as "N/A", as the patient-setup row
\* prints a missing chief complaint
resolveTemplateVars_NA(text, scenario) ==
    LET profile == IF scenario.patientProfile.some
                   THEN scenario.patientProfile.val ELSE EmptyProfile
        t1 == ReplaceAll(text, "{chiefComplaint}",
                         OrElse(profile.chiefComplaint, "N/A"))
        t2 == ReplaceAll(t1, "{diagnosis}", OrElse(profile.diagnosis, "N/A"))
        t3 == ReplaceAll(t2, "{labOrders}", OrElse(LabOrdersOf(profile), "N/A"))
        t4 == ReplaceAll(t3, "{labResults}",
                         OrElse(LabResultsOf(profile), "N/A"))
        t5 == ReplaceAll(t4, "{problemList}",
                         OrElse(profile.problemList, "N/A"))
        t6 == ReplaceAll(t5, "{medicalHistory}",
                         OrElse(profile.medicalHistory, "N/A"))
    IN  ReplaceAll(t6, "{antibiotics}", OrElse(profile.antibiotics, "N/A"))


resolveTemplateVars(text, scenario) ==
    LET profile == IF scenario.patientProfile.some
                   THEN scenario.patientProfile.val ELSE EmptyProfile
        t1 == ReplaceAll(text, "{chiefComplaint}",
                         OrElse(profile.chiefComplaint, ""))
        t2 == ReplaceAll(t1, "{diagnosis}", OrElse(profile.diagnosis, ""))
        t3 == ReplaceAll(t2, "{labOrders}", OrElse(LabOrdersOf(profile), ""))
        t4 == ReplaceAll(t3, "{labResults}", OrElse(LabResultsOf(profile), ""))
        t5 == ReplaceAll(t4, "{problemList}", OrElse(profile.problemList, ""))
        t6 == ReplaceAll(t5, "{medicalHistory}",
                         OrElse(profile.medicalHistory, ""))
    IN  ReplaceAll(t6, "{antibiotics}", OrElse(profile.antibiotics, ""))

-----------------------------------------------------------------------------
(* Applicability and flag-test selection *)

\* customerConfig?.[productKey]
ProductConfigOf(config, productKey) ==
    IF config.some /\ productKey \in DOMAIN config.val
    THEN Some(config.val[productKey]) ELSE None

\* productConfig.flags[flagKey]: "true", "false" or "undefined" (absent)
FlagValue(productConfig, flagKey) ==
    IF flagKey \in DOMAIN productConfig.flags
    THEN productConfig.flags[flagKey] ELSE "undefined"

\* mutant: a required flag fails only when it is exactly false
scenarioApplies_NotFalse(scenario, cust, config) ==
    IF ~SeqIncludes(cust.products, scenario.product) THEN FALSE
    ELSE IF scenario.requiredFlags.some /\ Len(scenario.requiredFlags.val) > 0
    THEN LET productConfig == ProductConfigOf(config, scenario.product)
         IN  IF ~productConfig.some THEN FALSE
             ELSE \A i \in 1..Len(scenario.requiredFlags.val) :
                    FlagValue(productConfig.val,
                              scenario.requiredFlags.val[i]) # "false"
    ELSE TRUE

scenarioApplies(scenario, cust, config) ==
    IF ~SeqIncludes(cust.products, scenario.product) THEN FALSE
    ELSE IF scenario.requiredFlags.some /\ Len(scenario.requiredFlags.val) > 0
    THEN LET productConfig == ProductConfigOf(config, scenario.product)
         IN  IF ~productConfig.some THEN FALSE
             ELSE \A i \in 1..Len(scenario.requiredFlags.val) :
                    FlagValue(productConfig.val,
                              scenario.requiredFlags.val[i]) = "true"
    ELSE TRUE

\* mutant: the flags of a category are walked in reverse definition order
RECURSIVE CatalogWalkFrom_FlagsReversed(_)
CatalogWalkFrom_FlagsReversed(c) ==
    IF c > Len(FlagDefinitions) THEN <<>>
    ELSE LET n == Len(FlagDefinitions[c].flags)
         IN  [i \in 1..n |->
                [flag |-> FlagDefinitions[c].flags[n + 1 - i],
                 category |-> FlagDefinitions[c].category]]
             \o CatalogWalkFrom_FlagsReversed(c + 1)


\* the catalog flattened in iteration order: category by category, each
\* category's flags in definition order, every flag with its category
RECURSIVE CatalogWalkFrom(_)
CatalogWalkFrom(c) ==
    IF c > Len(FlagDefinitions) THEN <<>>
    ELSE [i \in 1..Len(FlagDefinitions[c].flags) |->
            [flag |-> FlagDefinitions[c].flags[i],
             category |-> FlagDefinitions[c].category]]
         \o CatalogWalkFrom(c + 1)
CatalogWalk == CatalogWalkFrom(1)

\* flag applies to the product
FlagAppliesTo(flag, productKey) ==
    flag.applicableProducts.all
    \/ SeqIncludes(flag.applicableProducts.list, productKey)

\* mutant: a flag without whenEnabled criteria is verified with its
\* whenDisabled criteria
EnabledEntry_Fallback(e, productConfig, productKey) ==
    LET testCriteria == FlagTestCriteria(e.flag.key)
    IN  IF ~FlagAppliesTo(e.flag, productKey) THEN <<>>
        ELSE IF ~testCriteria.some THEN <<>>
        ELSE IF FlagValue(productConfig, e.flag.key) = "true"
        THEN << [flag |-> e.flag,
                 criteria |-> IF testCriteria.val.whenEnabled.some
                              THEN testCriteria.val.whenEnabled.val
                              ELSE testCriteria.val.whenDisabled.val,
                 category |-> e.category] >>
        ELSE <<>>

\* the entry pushed onto `enabled` for one catalog entry, if any
EnabledEntry(e, productConfig, productKey) ==
    LET testCriteria == FlagTestCriteria(e.flag.key)
    IN  IF ~FlagAppliesTo(e.flag, productKey) THEN <<>>
        ELSE IF ~testCriteria.some THEN <<>>
        ELSE IF FlagValue(productConfig, e.flag.key) = "true"
                /\ testCriteria.val.whenEnabled.some
        THEN << [flag |-> e.flag,
                 criteria |-> testCriteria.val.whenEnabled.val,
                 category |-> e.category] >>
        ELSE <<>>

\* mutant: a flag that is not configured counts as disabled
DisabledEntry_Falsy(e, productConfig, productKey) ==
    LET testCriteria == FlagTestCriteria(e.flag.key)
    IN  IF ~FlagAppliesTo(e.flag, productKey) THEN <<>>
        ELSE IF ~testCriteria.some THEN <<>>
        ELSE IF FlagValue(productConfig, e.flag.key) # "true"
                /\ testCriteria.val.whenDisabled.some
        THEN << [flag |-> e.flag,
                 criteria |-> testCriteria.val.whenDisabled.val,
                 category |-> e.category] >>
        ELSE <<>>

\* the entry pushed onto `disabled` for one catalog entry, if any
DisabledEntry(e, productConfig, productKey) ==
    LET testCriteria == FlagTestCriteria(e.flag.key)
    IN  IF ~FlagAppliesTo(e.flag, productKey) THEN <<>>
        ELSE IF ~testCriteria.some THEN <<>>
        ELSE IF FlagValue(productConfig, e.flag.key) = "false"
                /\ testCriteria.val.whenDisabled.some
        THEN << [flag |-> e.flag,
                 criteria |-> testCriteria.val.whenDisabled.val,
                 category |-> e.category] >>
        ELSE <<>>

RECURSIVE EnabledFrom(_, _, _)
EnabledFrom(walk, productConfig, productKey) ==
    IF walk = <<>> THEN <<>>
    ELSE EnabledEntry(Head(walk), productConfig, productKey)
         \o EnabledFrom(Tail(walk), productConfig, productKey)

RECURSIVE DisabledFrom(_, _, _)
DisabledFrom(walk, productConfig, productKey) ==
    IF walk = <<>> THEN <<>>
    ELSE DisabledEntry(Head(walk), productConfig, productKey)
         \o DisabledFrom(Tail(walk), productConfig, productKey)

\* mutant: a product without a configuration block is treated as having
\* every flag disabled
getFlagTests_MissingAsDisabled(cust, productKey, config) ==
    LET productConfig == ProductConfigOf(config, productKey)
        flags == IF productConfig.some THEN productConfig.val
                 ELSE [flags |-> [k \in FlagKeys |-> "false"]]
    IN  [enabled |-> EnabledFrom(CatalogWalk, flags, productKey),
         disabled |-> DisabledFrom(CatalogWalk, flags, productKey)]


getFlagTests(cust, productKey, config) ==
    LET productConfig == ProductConfigOf(config, productKey)
    IN  IF ~productConfig.some THEN [enabled |-> <<>>, disabled |-> <<>>]
        ELSE [enabled |-> EnabledFrom(CatalogWalk, productConfig.val,
                                      productKey),
              disabled |-> DisabledFrom(CatalogWalk, productConfig.val,
                                        productKey)]

\* word.charAt(0).toUpperCase() for the lower-case letters category keys use
UpperFirst(w) ==
    LET lower == "abcdefghijklmnopqrstuvwxyz"
        upper == "ABCDEFGHIJKLMNOPQRSTUVWXYZ"
        hit == { i \in 1..26 : SubSeq(lower, i, i) = SubSeq(w, 1, 1) }
    IN  IF w = "" \/ hit = {} THEN w
        ELSE LET i == CHOOSE i \in hit : TRUE
             IN  SubSeq(upper, i, i) \o SubSeq(w, 2, Len(w))

\* catKey.split("_").map(capitalise).join(" ")
RECURSIVE LabelFrom(_, _)
LabelFrom(rest, word) ==
    IF rest = "" THEN UpperFirst(word)
    ELSE IF SubSeq(rest, 1, 1) = "_"
         THEN UpperFirst(word) \o " "
              \o LabelFrom(SubSeq(rest, 2, Len(rest)), "")
         ELSE LabelFrom(SubSeq(rest, 2, Len(rest)),
                        word \o SubSeq(rest, 1, 1))
categoryLabel(catKey) == LabelFrom(catKey, "")

-----------------------------------------------------------------------------
(* generateTestPlan: the rows *)

\* the column-header row
HeaderRow ==
    <<"Test Step #", "Section", "Scenario / Flag", "User",
      "Test Step Description", "Expected Result", "Test Result", "Pass/Fail",
      "Description of failure/issues">>

\* mutant: writeback checks are relevant to every scenario
relevantCategories_Default(scenario) ==
    {"assessment_writeback"}
    \cup (IF StrIncludes(scenario.key, "sepsis_ed")
             \/ StrIncludes(scenario.key, "septic_shock")
          THEN {"documentation", "regulatory"}
               \cup (IF scenario.requiredFlags.some
                        /\ SeqIncludes(scenario.requiredFlags.val,
                                       "bundle_tracking")
                     THEN {"bundle_manager"} ELSE {})
          ELSE {})
    \cup (IF scenario.key = "no_sepsis_no_infection"
          THEN {"contributing_factors"} ELSE {})
    \cup (IF scenario.key = "abx_workflow" THEN {"suppression"} ELSE {})
    \cup (IF scenario.key = "comfort_care_suppression"
          THEN {"suppression"} ELSE {})
    \cup (IF scenario.key = "septic_shock_rnf_to_icu"
          THEN {"contributing_factors"} ELSE {})

\* mutant: bundle flags are relevant to every full-flow scenario
relevantCategories_BundleAlways(scenario) ==
    (IF StrIncludes(scenario.key, "sepsis_ed")
        \/ StrIncludes(scenario.key, "septic_shock")
     THEN {"assessment_writeback", "documentation", "regulatory",
           "bundle_manager"}
     ELSE {})
    \cup (IF scenario.key = "no_sepsis_no_infection"
          THEN {"assessment_writeback", "contributing_factors"} ELSE {})
    \cup (IF scenario.key = "abx_workflow" THEN {"suppression"} ELSE {})
    \cup (IF scenario.key = "comfort_care_suppression"
          THEN {"suppression"} ELSE {})
    \cup (IF scenario.key = "septic_shock_rnf_to_icu"
          THEN {"assessment_writeback", "contributing_factors"} ELSE {})

\* the relevance gate: the categories whose enabled flag tests are appended
\* to the scenario's block
relevantCategories(scenario) ==
    (IF StrIncludes(scenario.key, "sepsis_ed")
        \/ StrIncludes(scenario.key, "septic_shock")
     THEN {"assessment_writeback", "documentation", "regulatory"}
          \cup (IF scenario.requiredFlags.some
                   /\ SeqIncludes(scenario.requiredFlags.val,
                                  "bundle_tracking")
                THEN {"bundle_manager"} ELSE {})
     ELSE {})
    \cup (IF scenario.key = "no_sepsis_no_infection"
          THEN {"assessment_writeback", "contributing_factors"} ELSE {})
    \cup (IF scenario.key = "abx_workflow" THEN {"suppression"} ELSE {})
    \cup (IF scenario.key = "comfort_care_suppression"
          THEN {"suppression"} ELSE {})
    \cup (IF scenario.key = "septic_shock_rnf_to_icu"
          THEN {"assessment_writeback", "contributing_factors"} ELSE {})

\* enabledFlags.filter(f => relevantCategories.has(f.category))
scenarioFlagTests(scenario, cust, config) ==
    SelectSeq(getFlagTests(cust, scenario.product, config).enabled,
              LAMBDA f : f.category \in relevantCategories(scenario))

ScenarioHeaderRow(scenario) ==
    <<NoNum, "SCENARIO", "=== " \o scenario.name \o " ===", "",
      scenario.description, "Workflow: " \o scenario.workflow, "", "", "">>

\* `${p.age}` of an absent field prints "undefined"
Shown(opt) == IF opt.some THEN opt.val ELSE "undefined"

PatientSetupRow(scenario) ==
    LET p == scenario.patientProfile.val
    IN  <<NoNum, "PATIENT SETUP", scenario.name, "",
          "Test Patient: Age " \o Shown(p.age) \o ", " \o Shown(p.sex)
            \o ", " \o Shown(p.location) \o ". Chief Complaint: "
            \o OrElse(p.chiefComplaint, "N/A"),
          "", "", "", "">>

\* mutant: the role column of a step row names the customer's vendor
StepRows_VendorRole(steps, section, scenario, ehr, n) ==
    [i \in 1..Len(steps) |->
        <<Num(n + i), section, scenario.name,
          roleLabel(steps[i].role) \o " (" \o ehr \o ")",
          resolveEhrTerms(resolveTemplateVars(steps[i].action, scenario), ehr),
          resolveEhrTerms(resolveTemplateVars(steps[i].expected, scenario), ehr),
          "", "", "">>]


\* mutant: the step rows are pushed without their number
StepRows_Unnumbered(steps, section, scenario, ehr, n) ==
    [i \in 1..Len(steps) |->
        <<NoNum, section, scenario.name, roleLabel(steps[i].role),
          resolveEhrTerms(resolveTemplateVars(steps[i].action, scenario), ehr),
          resolveEhrTerms(resolveTemplateVars(steps[i].expected, scenario), ehr),
          "", "", "">>]

\* one row per step, the i-th numbered n + i
StepRows(steps, section, scenario, ehr, n) ==
    [i \in 1..Len(steps) |->
        <<Num(n + i), section, scenario.name, roleLabel(steps[i].role),
          resolveEhrTerms(resolveTemplateVars(steps[i].action, scenario), ehr),
          resolveEhrTerms(resolveTemplateVars(steps[i].expected, scenario), ehr),
          "", "", "">>]

FlagVerificationHeaderRow(scenario) ==
    <<NoNum, "FLAG VERIFICATION", scenario.name, "",
      "--- Feature-specific verification steps (auto-generated from enabled flags) ---",
      "", "", "", "">>

\* mutant: the criterion text goes through the patient-profile substitution
\* as the step texts do
CriterionRows_ProfileResolved(flagTest, section, expected, ehr, n) ==
    [i \in 1..Len(flagTest.criteria) |->
        <<Num(n + i), section,
          flagTest.flag.name \o " [" \o flagTest.flag.key \o "]",
          roleLabel(flagTest.criteria[i].role),
          resolveEhrTerms(resolveTemplateVars(flagTest.criteria[i].step,
                                              [patientProfile |-> None]),
                          ehr),
          expected, "", "", "">>]


\* one row per criterion of one flag test, the i-th numbered n + i
CriterionRows(flagTest, section, expected, ehr, n) ==
    [i \in 1..Len(flagTest.criteria) |->
        <<Num(n + i), section,
          flagTest.flag.name \o " [" \o flagTest.flag.key \o "]",
          roleLabel(flagTest.criteria[i].role),
          resolveEhrTerms(flagTest.criteria[i].step, ehr),
          expected, "", "", "">>]

\* the rows of the flag tests of a Flag Verification section, numbered
\* from n + 1 on
RECURSIVE FlagVerificationRows(_, _, _)
FlagVerificationRows(tests, ehr, n) ==
    IF tests = <<>> THEN <<>>
    ELSE CriterionRows(Head(tests), "Flag Verification", "VERIFY", ehr, n)
         \o FlagVerificationRows(Tail(tests), ehr,
                                 n + Len(Head(tests).criteria))

\* total number of criteria of a list of flag tests
RECURSIVE CriteriaCount(_)
CriteriaCount(tests) ==
    IF tests = <<>> THEN 0
    ELSE Len(Head(tests).criteria) + CriteriaCount(Tail(tests))

\* mutant: the category header row is one blank field short
CategoryHeaderRow_EightFields(category) ==
    <<NoNum, "Absence Test", "--- " \o categoryLabel(category) \o " ---",
      "", "", "", "", "">>


CategoryHeaderRow(category) ==
    <<NoNum, "Absence Test", "--- " \o categoryLabel(category) \o " ---",
      "", "", "", "", "", "">>

AbsenceHeaderRow(productKey) ==
    LET found == { i \in 1..Len(Products) : Products[i].key = productKey }
        productName == IF found = {} THEN productKey
                       ELSE Products[CHOOSE i \in found :
                                       \A j \in found : i <= j].name
    IN  <<NoNum, "ABSENCE TESTS",
          "=== " \o productName \o ": Disabled Flag Verification ===", "",
          "Verify that disabled features do NOT appear in the application",
          "", "", "", "">>

\* mutant: a category header row is pushed before every flag test
RECURSIVE AbsenceRows_HeaderPerTest(_, _, _, _)
AbsenceRows_HeaderPerTest(tests, currentCategory, ehr, n) ==
    IF tests = <<>> THEN <<>>
    ELSE <<CategoryHeaderRow(Head(tests).category)>>
         \o CriterionRows(Head(tests), "Absence Test", "VERIFY ABSENT", ehr, n)
         \o AbsenceRows_HeaderPerTest(Tail(tests), Some(Head(tests).category),
                                      ehr, n + Len(Head(tests).criteria))


\* the rows of the disabled flag tests of one product: a category header
\* whenever the category changes, then one row per criterion
RECURSIVE AbsenceRows(_, _, _, _)
AbsenceRows(tests, currentCategory, ehr, n) ==
    IF tests = <<>> THEN <<>>
    ELSE (IF Some(Head(tests).category) # currentCategory
          THEN <<CategoryHeaderRow(Head(tests).category)>> ELSE <<>>)
         \o CriterionRows(Head(tests), "Absence Test", "VERIFY ABSENT", ehr, n)
         \o AbsenceRows(Tail(tests), Some(Head(tests).category), ehr,
                        n + Len(Head(tests).criteria))

\* stepNum after the scenario-header row
StepNumAfterHeader(n) == n + 1

\* stepNum after the patient-setup row, when there is one
StepNumAfterPatient(scenario, n) ==
    IF scenario.patientProfile.some THEN n + 1 ELSE n

\* mutant: the core test rows are pushed before the setup rows
ScenarioBlock_CoreFirst(scenario, cust, config, n) ==
    LET n1 == StepNumAfterHeader(n)
        n2 == StepNumAfterPatient(scenario, n1)
        n3 == n2 + Len(scenario.coreTestSteps)
        n4 == n3 + Len(scenario.setupSteps)
        tests == scenarioFlagTests(scenario, cust, config)
    IN  [rows |->
            <<ScenarioHeaderRow(scenario)>>
            \o (IF scenario.patientProfile.some
                THEN <<PatientSetupRow(scenario)>> ELSE <<>>)
            \o StepRows(scenario.coreTestSteps, "Bayesian UI Test", scenario,
                        cust.ehr, n2)
            \o StepRows(scenario.setupSteps, "Setup", scenario, cust.ehr, n3)
            \o (IF Len(tests) > 0
                THEN <<FlagVerificationHeaderRow(scenario)>>
                     \o FlagVerificationRows(tests, cust.ehr, n4)
                ELSE <<>>),
         stepNum |-> n4 + CriteriaCount(tests)]


\* one iteration of the scenario loop for an applicable scenario: the rows
\* it pushes and the value of stepNum after it
ScenarioBlock(scenario, cust, config, n) ==
    LET n1 == StepNumAfterHeader(n)
        n2 == StepNumAfterPatient(scenario, n1)
        n3 == n2 + Len(scenario.setupSteps)
        n4 == n3 + Len(scenario.coreTestSteps)
        tests == scenarioFlagTests(scenario, cust, config)
    IN  [rows |->
            <<ScenarioHeaderRow(scenario)>>
            \o (IF scenario.patientProfile.some
                THEN <<PatientSetupRow(scenario)>> ELSE <<>>)
            \o StepRows(scenario.setupSteps, "Setup", scenario, cust.ehr, n2)
            \o StepRows(scenario.coreTestSteps, "Bayesian UI Test", scenario,
                        cust.ehr, n3)
            \o (IF Len(tests) > 0
                THEN <<FlagVerificationHeaderRow(scenario)>>
                     \o FlagVerificationRows(tests, cust.ehr, n4)
                ELSE <<>>),
         stepNum |-> n4 + CriteriaCount(tests)]

\* one iteration of the product loop for a product with disabled flag tests
AbsenceSection(productKey, cust, config, n) ==
    LET disabledFlags == getFlagTests(cust, productKey, config).disabled
    IN  [rows |-> <<AbsenceHeaderRow(productKey)>>
                  \o AbsenceRows(disabledFlags, None, cust.ehr, n),
         stepNum |-> n + CriteriaCount(disabledFlags)]

\* the keys of the catalog's products the customer owns, in catalog order
RECURSIVE OwnedInCatalogOrder(_, _)
OwnedInCatalogOrder(cust, i) ==
    IF i > Len(Products) THEN <<>>
    ELSE (IF SeqIncludes(cust.products, Products[i].key)
          THEN <<Products[i].key>> ELSE <<>>)
         \o OwnedInCatalogOrder(cust, i + 1)

\* mutant: the product loop walks the product catalog
productsOf_Catalog(cust) == OwnedInCatalogOrder(cust, 1)

\* the list the product loop walks: customer.products
productsOf(cust) == cust.products

\* rows.map(csvRow).join("\n"): every row is pushed as csvRow(fields)
PlanText(rs) == JoinStr([i \in 1..Len(rs) |-> csvRow(rs[i])], "\n")

-----------------------------------------------------------------------------
(* Inputs *)

TriState == {"true", "false", "undefined"}

\* the customers a run may be handed: product lists in and out of catalog
\* order, a product the catalog does not know, no product at all; a vendor
\* with its own terms, the default vendor, an unknown vendor
Customers ==
    { [key |-> "medstar_health", name |-> "MedStar", ehr |-> "Cerner",
       products |-> <<"sepsis", "deterioration">>],
      [key |-> "inova", name |-> "Inova", ehr |-> "Epic",
       products |-> <<"deterioration", "sepsis">>],
      [key |-> "thedacare", name |-> "ThedaCare", ehr |-> "Meditech",
       products |-> <<"sepsis">>],
      [key |-> "mayo", name |-> "Mayo", ehr |-> "Epic",
       products |-> <<>>] }

\* a product configuration block with the given flag values
Block(f) == [flags |-> f]

\* the flags whose values a configuration combines freely; the flag whose
\* disabled criteria list is empty takes the value of the flag that has no
\* criteria entry
FreeFlagKeys == FlagKeys \ {"nursing_documentation"}
Tied(f) ==
    [k \in FlagKeys |->
        IF k = "nursing_documentation" THEN f["neutropenic_fever_enabled"]
        ELSE f[k]]

\* the configurations of a customer: none at all; a block for every
\* product, with every combination of flag values; a block for one product
\* only
Configurations ==
    {None}
    \cup { Some([p \in {"sepsis", "deterioration"} |-> Block(Tied(f))]) :
             f \in [FreeFlagKeys -> TriState] }
    \cup { Some([p \in {"sepsis"} |-> Block([k \in FlagKeys |-> v])]) :
             v \in TriState }
    \cup { Some([p \in {"deterioration"} |-> Block([k \in FlagKeys |-> v])]) :
             v \in TriState }

\* no file at all: the plan files of the output directory, by file name
NoFiles == [f \in {} |-> ""]

\* the process state of a run in which main and its arguments play no part
NoRun ==
    [args |-> <<>>, filterCustomer |-> None, customers |-> <<>>,
     configurations |-> NoFiles, queue |-> <<>>, disk |-> NoFiles,
     wrote |-> <<>>, before |-> <<>>, plans |-> NoFiles, errors |-> <<>>,
     exit |-> None, launches |-> 0,
     docs |-> [flags |-> "ok", tests |-> "ok"], dir |-> FALSE,
     mkdir |-> FALSE,
     stats |-> NoFiles]

\* no pure function is being applied
NoCall == [op |-> "none"]

-----------------------------------------------------------------------------
(* The run: main calls generateTestPlan and writes the file *)

Init ==
    /\ customer \in Customers
    /\ customerConfig \in Configurations
    /\ pc = "main"
    /\ scenarioIdx = 1
    /\ productIdx = 1
    /\ stepNum = 0
    /\ rows = <<>>
    /\ csv = None
    /\ written = None
    /\ runs = 0
    /\ run = NoRun
    /\ call = NoCall

\* generateTestPlan is entered: rows holds the column header, stepNum is 0
EnterPlan ==
    /\ pc = "main"
    /\ runs = 0
    /\ runs' = runs + 1
    /\ rows' = <<HeaderRow>>
    /\ stepNum' = 0
    /\ scenarioIdx' = 1
    /\ productIdx' = 1
    /\ pc' = "part1"
    /\ UNCHANGED <<run, call, customer, customerConfig, csv, written>>

\* scenario loop: the scenario does not apply
SkipScenario ==
    /\ pc = "part1"
    /\ scenarioIdx <= Len(Scenarios)
    /\ ~scenarioApplies(Scenarios[scenarioIdx], customer, customerConfig)
    /\ scenarioIdx' = scenarioIdx + 1
    /\ UNCHANGED <<run, call, customer, customerConfig, pc, productIdx, stepNum, rows,
                   csv, written, runs>>

\* mutant: the block is emitted without the applicability check
EmitScenario_Unchecked ==
    /\ pc = "part1"
    /\ scenarioIdx <= Len(Scenarios)
    /\ LET block == ScenarioBlock(Scenarios[scenarioIdx], customer,
                                  customerConfig, stepNum)
       IN  /\ rows' = rows \o block.rows
           /\ stepNum' = block.stepNum
    /\ scenarioIdx' = scenarioIdx + 1
    /\ UNCHANGED <<run, call, customer, customerConfig, pc, productIdx, csv, written,
                   runs>>

\* scenario loop: the block of an applicable scenario
EmitScenario ==
    /\ pc = "part1"
    /\ scenarioIdx <= Len(Scenarios)
    /\ scenarioApplies(Scenarios[scenarioIdx], customer, customerConfig)
    /\ LET block == ScenarioBlock(Scenarios[scenarioIdx], customer,
                                  customerConfig, stepNum)
       IN  /\ rows' = rows \o block.rows
           /\ stepNum' = block.stepNum
    /\ scenarioIdx' = scenarioIdx + 1
    /\ UNCHANGED <<run, call, customer, customerConfig, pc, productIdx, csv, written,
                   runs>>

\* the scenario loop is over
EndPart1 ==
    /\ pc = "part1"
    /\ scenarioIdx > Len(Scenarios)
    /\ pc' = "part2"
    /\ UNCHANGED <<run, call, customer, customerConfig, scenarioIdx, productIdx, stepNum,
                   rows, csv, written, runs>>

\* product loop: the product has no disabled flag test
SkipProduct ==
    /\ pc = "part2"
    /\ productIdx <= Len(productsOf(customer))
    /\ getFlagTests(customer, productsOf(customer)[productIdx],
                    customerConfig).disabled = <<>>
    /\ productIdx' = productIdx + 1
    /\ UNCHANGED <<run, call, customer, customerConfig, pc, scenarioIdx, stepNum, rows,
                   csv, written, runs>>

\* product loop: the absence section of a product
EmitAbsence ==
    /\ pc = "part2"
    /\ productIdx <= Len(productsOf(customer))
    /\ getFlagTests(customer, productsOf(customer)[productIdx],
                    customerConfig).disabled # <<>>
    /\ LET section == AbsenceSection(productsOf(customer)[productIdx], customer,
                                     customerConfig, stepNum)
       IN  /\ rows' = rows \o section.rows
           /\ stepNum' = section.stepNum
    /\ productIdx' = productIdx + 1
    /\ UNCHANGED <<run, call, customer, customerConfig, pc, scenarioIdx, csv, written,
                   runs>>

\* generateTestPlan returns rows.join("\n")
ReturnPlan ==
    /\ pc = "part2"
    /\ productIdx > Len(productsOf(customer))
    /\ csv' = Some(PlanText(rows))
    /\ pc' = "write"
    /\ UNCHANGED <<run, call, customer, customerConfig, scenarioIdx, productIdx, stepNum,
                   rows, written, runs>>

\* main writes the file, replacing what a previous run wrote
WriteFile ==
    /\ pc = "write"
    /\ written' = csv
    /\ pc' = "main"
    /\ UNCHANGED <<run, call, customer, customerConfig, scenarioIdx, productIdx, stepNum,
                   rows, csv, runs>>

\* mutant: the step counter outlives the call
Rerun_KeepStepNum ==
    /\ pc = "main"
    /\ runs > 0
    /\ runs < MaxRuns
    /\ runs' = runs + 1
    /\ rows' = <<HeaderRow>>
    /\ scenarioIdx' = 1
    /\ productIdx' = 1
    /\ pc' = "part1"
    /\ UNCHANGED <<run, call, customer, customerConfig, stepNum, csv, written>>

\* the generator is started again on the same documents for the same
\* customer: generateTestPlan begins with fresh rows and stepNum
Rerun ==
    /\ pc = "main"
    /\ runs > 0
    /\ runs < MaxRuns
    /\ runs' = runs + 1
    /\ rows' = <<HeaderRow>>
    /\ stepNum' = 0
    /\ scenarioIdx' = 1
    /\ productIdx' = 1
    /\ pc' = "part1"
    /\ UNCHANGED <<run, call, customer, customerConfig, csv, written>>

Next ==
    \/ EnterPlan
    \/ SkipScenario
    \/ EmitScenario
    \/ EndPart1
    \/ SkipProduct
    \/ EmitAbsence
    \/ ReturnPlan
    \/ WriteFile

Spec == Init /\ [][Next]_vars

\* repeated runs on unchanged inputs: the configurations with one value for
\* the flags a scenario may require and one for the other flags
RerunConfigurations ==
    {None}
    \cup { Some([p \in blocks |->
                   Block([k \in FlagKeys |->
                            IF k \in {"nurse_writeback_flowsheet",
                                      "bundle_tracking"} THEN v ELSE w])]) :
             blocks \in {{"sepsis"}, {"deterioration"},
                         {"sepsis", "deterioration"}},
             v \in TriState, w \in TriState }

InitRerun == Init /\ customerConfig \in RerunConfigurations

NextRerun == Next \/ Rerun

SpecRerun == InitRerun /\ [][NextRerun]_vars

-----------------------------------------------------------------------------
(* The process: the command line, main's customer loop, the plan files *)

\* how many times the program is launched on the same output directory
MaxLaunches == 2

\* flagData.customers, in document order: two customers that differ in
\* their vendor only, a customer of an unknown vendor with one product
CustomerList ==
    << [key |-> "medstar_health", name |-> "MedStar", ehr |-> "Cerner",
        products |-> <<"sepsis", "deterioration">>],
       [key |-> "sentara", name |-> "Sentara", ehr |-> "Epic",
        products |-> <<"sepsis", "deterioration">>],
       [key |-> "thedacare", name |-> "ThedaCare", ehr |-> "Meditech",
        products |-> <<"sepsis">>] >>

Reversed(seq) == [i \in 1..Len(seq) |-> seq[Len(seq) + 1 - i]]

\* the orders in which the document may list the customers
CustomerOrders == {CustomerList, Reversed(CustomerList)}

\* flagData.configurations: the first two customers share a configuration
\* in which the flags that scenarios require have one value and the other
\* flags the opposite value; the third customer has its own
ConfigurationDocs ==
    { [k \in {"medstar_health", "sentara", "thedacare"} |->
         IF k = "thedacare"
         THEN Some([p \in {"sepsis"} |->
                      Block([f \in FlagKeys |-> "true"])])
         ELSE Some([p \in {"sepsis", "deterioration"} |->
                      Block([f \in FlagKeys |->
                               IF f \in {"nurse_writeback_flowsheet",
                                         "bundle_tracking"}
                               THEN v ELSE w])])] :
      v \in {"true", "false"}, w \in {"true", "false"} }

\* process.argv.slice(2): no argument, the flag without a value, the flag
\* with the key of a customer, with a key no customer has, after another
\* argument
ArgLists ==
    { <<>>, <<"--customer">>, <<"--customer", "nobody">>,
      <<"--verbose", "--customer", "thedacare">> }
    \cup { <<"--customer", CustomerList[i].key>> : i \in 1..2 }

\* args.indexOf("--customer"), 0 standing for -1
IndexOfCustomerArg(args) ==
    IF SeqIncludes(args, "--customer")
    THEN CHOOSE i \in 1..Len(args) :
            args[i] = "--customer" /\ \A j \in 1..(i - 1) : args[j] # "--customer"
    ELSE 0

\* filterCustomer: the argument after --customer when there is one that is
\* not empty, null otherwise
ParseFilter(args) ==
    LET customerArgIdx == IndexOfCustomerArg(args)
    IN  IF customerArgIdx # 0 /\ customerArgIdx + 1 <= Len(args)
           /\ args[customerArgIdx + 1] # ""
        THEN Some(args[customerArgIdx + 1]) ELSE None

\* the customers main loops over: all of them with an unmatched filter
MatchedCustomers_AllOnMiss(list, filter) ==
    LET hit == SelectSeq(list, LAMBDA c : filter.some /\ c.key = filter.val)
    IN  IF hit = <<>> THEN list ELSE hit

\* the customers main loops over
MatchedCustomers(list, filter) ==
    IF filter.some THEN SelectSeq(list, LAMBDA c : c.key = filter.val)
    ELSE list

\* `test-plan-${customer.key}.csv`
PlanFileName(key) == "test-plan-" \o key \o ".csv"

\* the customer variable before the loop binds it
NoCustomer == [key |-> "", name |-> "", ehr |-> "", products |-> <<>>]

\* FLAG_DATA_PATH and TEST_DEF_PATH, below the directory of the script
FLAG_DATA_PATH == "../data/feature-flags.json"
TEST_DEF_PATH == "data/test-definitions.json"

\* the state of an input document on disk
DocStates == {"ok", "missing", "unparseable"}

\* the two input documents as a launch finds them: both readable, one of
\* them missing or unparseable, both missing
DocPairs ==
    { [flags |-> "ok", tests |-> "ok"] }
    \cup { [flags |-> d, tests |-> "ok"] : d \in DocStates \ {"ok"} }
    \cup { [flags |-> "ok", tests |-> d] : d \in DocStates \ {"ok"} }
    \cup { [flags |-> "missing", tests |-> "missing"] }

\* err.message of the error fs.readFileSync or JSON.parse throws
ErrMessage(state, path) ==
    IF state = "missing"
    THEN "ENOENT: no such file or directory, open '" \o path \o "'"
    ELSE "Unexpected token } in JSON at position 1"

\* a process at the top of the script: docs is the state of the two input
\* documents, dir tells whether the output directory exists, disk holds the
\* plan files in it; the arguments are parsed by the time main runs
Launched(args, docs, customers, configurations, disk, dir, before, n) ==
    [args |-> args, filterCustomer |-> ParseFilter(args),
     customers |-> customers, configurations |-> configurations,
     queue |-> <<>>, disk |-> disk, wrote |-> <<>>, before |-> before,
     plans |-> NoFiles, errors |-> <<>>, exit |-> None, launches |-> n,
     docs |-> docs, dir |-> dir, mkdir |-> FALSE, stats |-> NoFiles]

InitMain ==
    /\ \E args \in ArgLists, order \in CustomerOrders,
          doc \in ConfigurationDocs, docs \in DocPairs :
          run = Launched(args, docs, order, doc, NoFiles, FALSE, <<>>, 1)
    /\ call = NoCall
    /\ customer = NoCustomer
    /\ customerConfig = None
    /\ pc = "load"
    /\ scenarioIdx = 1
    /\ productIdx = 1
    /\ stepNum = 0
    /\ rows = <<>>
    /\ csv = None
    /\ written = None
    /\ runs = 0

\* the feature-flag document is read and parsed; a failure is reported
\* with the expected path and the process exits with status 1
LoadFlagData ==
    /\ pc = "load"
    /\ IF run.docs.flags = "ok"
       THEN /\ pc' = "loadTests"
            /\ UNCHANGED run
       ELSE /\ run' = [run EXCEPT
                         !.errors = @ \o
                            << "Error reading feature flags: "
                                 \o ErrMessage(run.docs.flags, FLAG_DATA_PATH),
                               "Expected at: " \o FLAG_DATA_PATH >>,
                         !.exit = Some(1)]
            /\ pc' = "exited"
    /\ UNCHANGED <<call, customer, customerConfig, scenarioIdx, productIdx,
                   stepNum, rows, csv, written, runs>>

\* mutant: a failure to read the test definitions is reported and the run
\* goes on
LoadTestDefs_Continues ==
    /\ pc = "loadTests"
    /\ IF run.docs.tests = "ok"
       THEN UNCHANGED run
       ELSE run' = [run EXCEPT
                      !.errors = @ \o
                         << "Error reading test definitions: "
                              \o ErrMessage(run.docs.tests, TEST_DEF_PATH),
                            "Expected at: " \o TEST_DEF_PATH >>]
    /\ pc' = "start"
    /\ UNCHANGED <<call, customer, customerConfig, scenarioIdx, productIdx,
                   stepNum, rows, csv, written, runs>>

\* the test-definition document is read and parsed; a failure is reported
\* with the expected path and the process exits with status 1
LoadTestDefs ==
    /\ pc = "loadTests"
    /\ IF run.docs.tests = "ok"
       THEN /\ pc' = "start"
            /\ UNCHANGED run
       ELSE /\ run' = [run EXCEPT
                         !.errors = @ \o
                            << "Error reading test definitions: "
                                 \o ErrMessage(run.docs.tests, TEST_DEF_PATH),
                               "Expected at: " \o TEST_DEF_PATH >>,
                         !.exit = Some(1)]
            /\ pc' = "exited"
    /\ UNCHANGED <<call, customer, customerConfig, scenarioIdx, productIdx,
                   stepNum, rows, csv, written, runs>>

\* main up to the loop: the output directory is made if it is not there,
\* the customers are selected; with none selected the error is reported and
\* the process exits with status 1
SelectCustomers ==
    /\ pc = "start"
    /\ LET customers == MatchedCustomers(run.customers, run.filterCustomer)
           made == [run EXCEPT !.dir = TRUE, !.mkdir = ~run.dir]
       IN  IF customers = <<>>
           THEN /\ run' = [made EXCEPT
                             !.errors = Append(@, "No customer found matching: "
                                               \o StringOf(run.filterCustomer)),
                             !.exit = Some(1)]
                /\ pc' = "exited"
           ELSE /\ run' = [made EXCEPT !.queue = customers]
                /\ pc' = "loop"
    /\ UNCHANGED <<call, customer, customerConfig, scenarioIdx, productIdx,
                   stepNum, rows, csv, written, runs>>

\* the loop calls generateTestPlan for the next customer, the step counter
\* of the previous call still running
CallPlan_KeepStepNum ==
    /\ pc = "loop"
    /\ run.queue # <<>>
    /\ customer' = Head(run.queue)
    /\ customerConfig' =
          IF Head(run.queue).key \in DOMAIN run.configurations
          THEN run.configurations[Head(run.queue).key] ELSE None
    /\ runs' = runs + 1
    /\ rows' = <<HeaderRow>>
    /\ stepNum' = stepNum
    /\ scenarioIdx' = 1
    /\ productIdx' = 1
    /\ pc' = "part1"
    /\ UNCHANGED <<run, call, csv, written>>

\* the loop calls generateTestPlan for the next customer: rows holds the
\* column header, stepNum is 0
CallPlan ==
    /\ pc = "loop"
    /\ run.queue # <<>>
    /\ customer' = Head(run.queue)
    /\ customerConfig' =
          IF Head(run.queue).key \in DOMAIN run.configurations
          THEN run.configurations[Head(run.queue).key] ELSE None
    /\ runs' = runs + 1
    /\ rows' = <<HeaderRow>>
    /\ stepNum' = 0
    /\ scenarioIdx' = 1
    /\ productIdx' = 1
    /\ pc' = "part1"
    /\ UNCHANGED <<run, call, csv, written>>

\* the number of scenarios of the list from the i-th on that apply
RECURSIVE ApplyingFrom(_, _, _)
ApplyingFrom(i, cust, config) ==
    IF i > Len(Scenarios) THEN 0
    ELSE (IF scenarioApplies(Scenarios[i], cust, config) THEN 1 ELSE 0)
         + ApplyingFrom(i + 1, cust, config)

\* the lengths of the enabled (side "enabled") or disabled lists of the
\* customer's products from the i-th on, summed
RECURSIVE FlagCountFrom(_, _, _, _)
FlagCountFrom(i, cust, config, side) ==
    IF i > Len(cust.products) THEN 0
    ELSE Len(getFlagTests(cust, cust.products[i], config)[side])
         + FlagCountFrom(i + 1, cust, config, side)

\* mutant: every scenario of an owned product is counted
getTestPlanStats_OwnedScenarios(cust, configurations) ==
    LET config == IF cust.key \in DOMAIN configurations
                  THEN configurations[cust.key] ELSE None
    IN  [scenarioCount |->
            Cardinality({ i \in 1..Len(Scenarios) :
                            SeqIncludes(cust.products, Scenarios[i].product) }),
         enabledFlagCount |-> FlagCountFrom(1, cust, config, "enabled"),
         disabledFlagCount |-> FlagCountFrom(1, cust, config, "disabled")]

\* the summary counts of a customer, from the configurations document
getTestPlanStats(cust, configurations) ==
    LET config == IF cust.key \in DOMAIN configurations
                  THEN configurations[cust.key] ELSE None
    IN  [scenarioCount |-> ApplyingFrom(1, cust, config),
         enabledFlagCount |-> FlagCountFrom(1, cust, config, "enabled"),
         disabledFlagCount |-> FlagCountFrom(1, cust, config, "disabled")]

\* the loop writes the returned plan to the customer's file and logs the
\* file name with the customer's summary counts
StoreFile ==
    /\ pc = "write"
    /\ LET filename == PlanFileName(customer.key)
       IN  run' = [run EXCEPT
                     !.disk = (filename :> csv.val) @@ @,
                     !.wrote = Append(@, filename),
                     !.plans = (customer.key :> rows) @@ @,
                     !.stats = (customer.key :>
                                  getTestPlanStats(customer,
                                                   run.configurations)) @@ @,
                     !.queue = Tail(@)]
    /\ written' = csv
    /\ pc' = "loop"
    /\ UNCHANGED <<call, customer, customerConfig, scenarioIdx, productIdx,
                   stepNum, rows, csv, runs>>

\* the loop is over: main returns and the process ends with status 0
EndMain ==
    /\ pc = "loop"
    /\ run.queue = <<>>
    /\ run' = [run EXCEPT !.exit = Some(0)]
    /\ pc' = "exited"
    /\ UNCHANGED <<call, customer, customerConfig, scenarioIdx, productIdx,
                   stepNum, rows, csv, written, runs>>

\* the program is launched again on the same output directory
Relaunch ==
    /\ pc = "exited"
    /\ run.launches < MaxLaunches
    /\ \E args \in ArgLists, order \in CustomerOrders :
          run' = Launched(args, run.docs, order, run.configurations,
                          run.disk, run.dir, run.wrote, run.launches + 1)
    /\ customer' = NoCustomer
    /\ customerConfig' = None
    /\ pc' = "load"
    /\ scenarioIdx' = 1
    /\ productIdx' = 1
    /\ stepNum' = 0
    /\ rows' = <<>>
    /\ csv' = None
    /\ written' = None
    /\ runs' = 0
    /\ UNCHANGED call

NextMain ==
    \/ LoadFlagData
    \/ LoadTestDefs
    \/ SelectCustomers
    \/ CallPlan
    \/ SkipScenario
    \/ EmitScenario
    \/ EndPart1
    \/ SkipProduct
    \/ EmitAbsence
    \/ ReturnPlan
    \/ StoreFile
    \/ EndMain
    \/ Relaunch

SpecMain == InitMain /\ [][NextMain]_vars

\* fs.writeFileSync throws (the directory is not writable, the disk is
\* full): nothing catches the error, the process ends with status 1 and the
\* file is not written
StoreFileFails ==
    /\ pc = "write"
    /\ run' = [run EXCEPT
                 !.errors = Append(@, "Error: EACCES: permission denied, open '"
                                      \o PlanFileName(customer.key) \o "'"),
                 !.exit = Some(1)]
    /\ pc' = "exited"
    /\ UNCHANGED <<call, customer, customerConfig, scenarioIdx, productIdx,
                   stepNum, rows, csv, written, runs>>

\* one launch on a file system that may refuse a write
NextMainFail ==
    \/ LoadFlagData
    \/ LoadTestDefs
    \/ SelectCustomers
    \/ CallPlan
    \/ SkipScenario
    \/ EmitScenario
    \/ EndPart1
    \/ SkipProduct
    \/ EmitAbsence
    \/ ReturnPlan
    \/ StoreFile
    \/ StoreFileFails
    \/ EndMain

SpecMainFail == InitMain /\ [][NextMainFail]_vars


-----------------------------------------------------------------------------
(* The resolvers applied to arbitrary texts *)

\* number of pieces of the longest text handed to the resolvers
MaxPieces == 3

\* the pieces texts are made of: two terminology tokens, a profile token,
\* the two braces
TextPieces == {"{flowsheet}", "{alertFlag}", "{diagnosis}", "{", "}"}

\* the texts of at most n pieces
RECURSIVE TextsUpTo(_)
TextsUpTo(n) ==
    IF n = 0 THEN {""}
    ELSE LET shorter == TextsUpTo(n - 1)
         IN  shorter \cup { t \o p : t \in shorter, p \in TextPieces }

\* the vendor keys a call is made with: the default vendor, the vendors of
\* the table with a missing or an unusual term, a vendor the table lacks
CallVendors ==
    {"Epic", "Athena", "Allscripts", "Nextgen", "Paragon", "Meditech"}

\* the scenarios a call is made with: no profile, a profile of plain
\* values, a profile with a value that holds a terminology token
CallScenarios ==
    { [patientProfile |-> None],
      [patientProfile |-> Some(FullProfile)],
      [patientProfile |->
          Some([FullProfile EXCEPT !.diagnosis = Some("{flowsheet}")])] }

InitText ==
    /\ \E text \in TextsUpTo(MaxPieces), ehr \in CallVendors,
          scenario \in CallScenarios :
          call = [op |-> "resolve", text |-> text, ehr |-> ehr,
                  scenario |-> scenario, done |-> 0,
                  once |-> None, twice |-> None,
                  profileFirst |-> None, ehrFirst |-> None]
    /\ run = NoRun
    /\ customer = NoCustomer
    /\ customerConfig = None
    /\ pc = "call"
    /\ scenarioIdx = 1
    /\ productIdx = 1
    /\ stepNum = 0
    /\ rows = <<>>
    /\ csv = None
    /\ written = None
    /\ runs = 0

\* resolveEhrTerms(text, ehr)
ResolveOnce ==
    /\ call.op = "resolve"
    /\ call.done = 0
    /\ call' = [call EXCEPT
                  !.once = Some(resolveEhrTerms(call.text, call.ehr)),
                  !.done = 1]
    /\ UNCHANGED <<run, customer, customerConfig, pc, scenarioIdx, productIdx,
                   stepNum, rows, csv, written, runs>>

\* resolveEhrTerms applied to its own result
ResolveTwice ==
    /\ call.op = "resolve"
    /\ call.done = 1
    /\ call' = [call EXCEPT
                  !.twice = Some(resolveEhrTerms(call.once.val, call.ehr)),
                  !.done = 2]
    /\ UNCHANGED <<run, customer, customerConfig, pc, scenarioIdx, productIdx,
                   stepNum, rows, csv, written, runs>>

\* the generator's order: profile tokens first, then terminology tokens
ResolveProfileFirst ==
    /\ call.op = "resolve"
    /\ call.done = 2
    /\ call' = [call EXCEPT
                  !.profileFirst =
                      Some(resolveEhrTerms(
                               resolveTemplateVars(call.text, call.scenario),
                               call.ehr)),
                  !.done = 3]
    /\ UNCHANGED <<run, customer, customerConfig, pc, scenarioIdx, productIdx,
                   stepNum, rows, csv, written, runs>>

\* the other order: terminology tokens first, then profile tokens
ResolveEhrFirst ==
    /\ call.op = "resolve"
    /\ call.done = 3
    /\ call' = [call EXCEPT
                  !.ehrFirst =
                      Some(resolveTemplateVars(
                               resolveEhrTerms(call.text, call.ehr),
                               call.scenario)),
                  !.done = 4]
    /\ UNCHANGED <<run, customer, customerConfig, pc, scenarioIdx, productIdx,
                   stepNum, rows, csv, written, runs>>

NextText ==
    \/ ResolveOnce
    \/ ResolveTwice
    \/ ResolveProfileFirst
    \/ ResolveEhrFirst

SpecText == InitText /\ [][NextText]_vars


-----------------------------------------------------------------------------
(* csvEscape and csvRow applied to arbitrary values *)

\* number of characters of the longest field value handed to csvEscape
MaxChars == 3

\* the characters field values are made of: the delimiter, the quote, the
\* newline, a letter
CsvChars == {",", "\"", "\n", "a"}

\* the strings of at most n characters
RECURSIVE StringsUpTo(_)
StringsUpTo(n) ==
    IF n = 0 THEN {""}
    ELSE LET shorter == StringsUpTo(n - 1)
         IN  shorter \cup { t \o c : t \in shorter, c \in CsvChars }

\* the values next to the field in its row: null or undefined, a letter, a
\* quote
Neighbours == {None, Some("b"), Some("\"")}

\* csvEscape of a value that may be null or undefined
csvEscapeValue(val) == IF ~val.some THEN "" ELSE csvEscape(val.val)

\* csvRow of values that may be null or undefined
csvRowOfValues(values) ==
    JoinStr([i \in 1..Len(values) |-> csvEscapeValue(values[i])], ",")

InitCsv ==
    /\ \E s \in StringsUpTo(MaxChars), left \in Neighbours,
          right \in Neighbours :
          call = [op |-> "csv", values |-> <<left, Some(s), right>>,
                  done |-> 0, escaped |-> None, line |-> None]
    /\ run = NoRun
    /\ customer = NoCustomer
    /\ customerConfig = None
    /\ pc = "call"
    /\ scenarioIdx = 1
    /\ productIdx = 1
    /\ stepNum = 0
    /\ rows = <<>>
    /\ csv = None
    /\ written = None
    /\ runs = 0

\* values.map(csvEscape)
EscapeValues ==
    /\ call.op = "csv"
    /\ call.done = 0
    /\ call' = [call EXCEPT
                  !.escaped = Some([i \in 1..Len(call.values) |->
                                      csvEscapeValue(call.values[i])]),
                  !.done = 1]
    /\ UNCHANGED <<run, customer, customerConfig, pc, scenarioIdx, productIdx,
                   stepNum, rows, csv, written, runs>>

\* csvRow(values)
WriteRow ==
    /\ call.op = "csv"
    /\ call.done = 1
    /\ call' = [call EXCEPT !.line = Some(csvRowOfValues(call.values)),
                            !.done = 2]
    /\ UNCHANGED <<run, customer, customerConfig, pc, scenarioIdx, productIdx,
                   stepNum, rows, csv, written, runs>>

NextCsv ==
    \/ EscapeValues
    \/ WriteRow

SpecCsv == InitCsv /\ [][NextCsv]_vars


-----------------------------------------------------------------------------
(* changelog.js: the documents compared *)

\* the largest number of edits that separate the new document from the old
MaxEdits == 3

\* an object without keys
EmptyObject == [k \in {} |-> ""]

\* the key order of the documents' objects: Object.keys lists the keys of
\* an object in the order the document gives them
KeyOrder ==
    <<"medstar_health", "sentara", "thedacare", "inova",
      "sepsis", "deterioration", "shock",
      "nurse_writeback_flowsheet", "bundle_tracking",
      "code_status_suppression">>
ObjectKeys(obj) == SelectSeq(KeyOrder, LAMBDA k : k \in DOMAIN obj)

\* new Set(list) spread back into a list: the distinct elements in the
\* order of their first occurrence
RECURSIVE Distinct(_)
Distinct(s) ==
    IF s = <<>> THEN <<>>
    ELSE LET front == Distinct(SubSeq(s, 1, Len(s) - 1))
         IN  IF SeqIncludes(front, s[Len(s)]) THEN front
             ELSE Append(front, s[Len(s)])

\* the lists of a list, one after the other
RECURSIVE Concat(_)
Concat(lists) ==
    IF lists = <<>> THEN <<>> ELSE Head(lists) \o Concat(Tail(lists))

\* list.map((x) => x.key)
KeysOf(list) == [i \in 1..Len(list) |-> list[i].key]

\* list.find((x) => x.key === key)
FindByKey(list, key) ==
    LET hit == { i \in 1..Len(list) : list[i].key = key }
    IN  IF hit = {} THEN None
        ELSE Some(list[CHOOSE i \in hit : \A j \in hit : i <= j])

\* the feature-flags document at the old ref: the catalog of the generator,
\* three customers, a configuration for one of them (the others have none)
OldDocument ==
    [products |-> Products,
     customers |-> CustomerList,
     flagDefinitions |-> Some(FlagDefinitions),
     configurations |->
        [c \in {"sentara"} |->
            [p \in {"sepsis"} |->
                [flags |-> [k \in {"nurse_writeback_flowsheet",
                                   "bundle_tracking"} |->
                               IF k = "bundle_tracking" THEN "false"
                               ELSE "true"],
                 notes |-> [k \in {"bundle_tracking"} |->
                               "pilot site"]]]]]

\* the ways the new document differs from the old one
Edits ==
    {"product+", "product-", "customer+", "customer-", "assignment",
     "flag+", "flag-", "value", "unset", "note", "definitions-"}

\* the flags of the first category with a flag more, the last category gone
EditedDefinitions(defs, edits) ==
    LET more == IF "flag+" \in edits
                THEN [defs EXCEPT ![1].flags =
                        Append(@, [key |-> "rapid_response",
                                   name |-> "Rapid Response",
                                   applicableProducts |-> AllProducts])]
                ELSE defs
    IN  IF "flag-" \in edits THEN SubSeq(more, 1, Len(more) - 1) ELSE more

\* the old document with a set of edits applied
Edited(doc, edits) ==
    [products |->
        (IF "product-" \in edits
         THEN SelectSeq(doc.products, LAMBDA p : p.key # "deterioration")
         ELSE doc.products)
        \o (IF "product+" \in edits
            THEN <<[key |-> "shock", name |-> "Shock"]>> ELSE <<>>),
     customers |->
        [i \in 1..Len(SelectSeq(doc.customers,
                                LAMBDA c : ~("customer-" \in edits
                                             /\ c.key = "thedacare"))) |->
            LET c == SelectSeq(doc.customers,
                               LAMBDA d : ~("customer-" \in edits
                                            /\ d.key = "thedacare"))[i]
            IN  IF "assignment" \in edits /\ c.key = "medstar_health"
                THEN [c EXCEPT !.products = <<"sepsis", "shock">>]
                ELSE c]
        \o (IF "customer+" \in edits
            THEN <<[key |-> "inova", name |-> "Inova", ehr |-> "Epic",
                    products |-> <<"deterioration", "sepsis">>]>>
            ELSE <<>>),
     flagDefinitions |->
        IF "definitions-" \in edits THEN None
        ELSE Some(EditedDefinitions(doc.flagDefinitions.val, edits)),
     configurations |->
        [c \in DOMAIN doc.configurations |->
            [p \in DOMAIN doc.configurations[c] |->
                LET block == doc.configurations[c][p]
                    kept == IF "unset" \in edits
                            THEN DOMAIN block.flags \ {"bundle_tracking"}
                            ELSE DOMAIN block.flags
                IN  [flags |->
                        [k \in kept |->
                            IF "value" \in edits
                               /\ k = "nurse_writeback_flowsheet"
                            THEN "false" ELSE block.flags[k]],
                     notes |->
                        IF "note" \in edits
                        THEN [k \in DOMAIN block.notes |-> ""]
                        ELSE block.notes]]]]

\* the documents a ref may hold: the old document with up to MaxEdits edits
NewDocuments ==
    { Edited(OldDocument, e) :
        e \in { s \in SUBSET Edits : Cardinality(s) <= MaxEdits } }

-----------------------------------------------------------------------------
(* changelog.js: the diff engine *)

NoChanges ==
    [customersAdded |-> <<>>, customersRemoved |-> <<>>,
     productsAdded |-> <<>>, productsRemoved |-> <<>>,
     flagsAdded |-> <<>>, flagsRemoved |-> <<>>,
     configChanges |-> <<>>, noteChanges |-> <<>>,
     customerProductChanges |-> <<>>]

\* the elements of a list whose key the other list lacks
MissingFrom(list, other) ==
    SelectSeq(list, LAMBDA x : ~SeqIncludes(KeysOf(other), x.key))

\* the entry of a customer of both documents whose products changed
ProductChangeOf(oldCust, newCust) ==
    LET oldProds == Distinct(oldCust.products)
        newProds == Distinct(newCust.products)
        added == SelectSeq(newProds, LAMBDA p : ~SeqIncludes(oldProds, p))
        removed == SelectSeq(oldProds, LAMBDA p : ~SeqIncludes(newProds, p))
    IN  IF added # <<>> \/ removed # <<>>
        THEN <<[customer |-> newCust.name, customerKey |-> newCust.key,
                added |-> added, removed |-> removed]>>
        ELSE <<>>

\* the flag keys of the flag definitions, each once; none when the
\* document has no flagDefinitions
DefinedFlagKeys(defs) ==
    IF ~defs.some THEN <<>>
    ELSE Distinct(Concat([c \in 1..Len(defs.val) |->
                            KeysOf(defs.val[c].flags)]))

\* data.configurations[custKey] || {}
ConfigOrEmpty(doc, custKey) ==
    IF custKey \in DOMAIN doc.configurations
    THEN doc.configurations[custKey] ELSE EmptyObject

\* config[prodKey]?.flags || {} and config[prodKey]?.notes || {}
FieldOrEmpty(config, prodKey, field) ==
    IF prodKey \in DOMAIN config /\ field \in DOMAIN config[prodKey]
    THEN config[prodKey][field] ELSE EmptyObject

\* flags[flagKey]: "true", "false" or "undefined"
ValueAt(flags, flagKey) ==
    IF flagKey \in DOMAIN flags THEN flags[flagKey] ELSE "undefined"

\* notes[flagKey] || ""
NoteAt(notes, flagKey) ==
    IF flagKey \in DOMAIN notes THEN notes[flagKey] ELSE ""

\* the keys of two objects: those of the first, then the others of the second
AllKeys(a, b) == Distinct(ObjectKeys(a) \o ObjectKeys(b))

\* the flag value changes of one product of one customer
FlagChangesOf(old, new, custKey, customerName, prodKey) ==
    LET productName == IF FindByKey(new.products, prodKey).some
                       THEN FindByKey(new.products, prodKey).val.name
                       ELSE prodKey
        oldFlags == FieldOrEmpty(ConfigOrEmpty(old, custKey), prodKey, "flags")
        newFlags == FieldOrEmpty(ConfigOrEmpty(new, custKey), prodKey, "flags")
        changed == SelectSeq(AllKeys(oldFlags, newFlags),
                             LAMBDA k : ValueAt(oldFlags, k)
                                           # ValueAt(newFlags, k))
    IN  [i \in 1..Len(changed) |->
            [customer |-> customerName, customerKey |-> custKey,
             product |-> productName, productKey |-> prodKey,
             flag |-> changed[i],
             oldValue |-> ValueAt(oldFlags, changed[i]),
             newValue |-> ValueAt(newFlags, changed[i])]]

\* the note changes of one product of one customer
NoteChangesOf(old, new, custKey, customerName, prodKey) ==
    LET productName == IF FindByKey(new.products, prodKey).some
                       THEN FindByKey(new.products, prodKey).val.name
                       ELSE prodKey
        oldNotes == FieldOrEmpty(ConfigOrEmpty(old, custKey), prodKey, "notes")
        newNotes == FieldOrEmpty(ConfigOrEmpty(new, custKey), prodKey, "notes")
        changed == SelectSeq(AllKeys(oldNotes, newNotes),
                             LAMBDA k : NoteAt(oldNotes, k)
                                           # NoteAt(newNotes, k))
    IN  [i \in 1..Len(changed) |->
            [customer |-> customerName, customerKey |-> custKey,
             product |-> productName, productKey |-> prodKey,
             flag |-> changed[i],
             oldNote |-> NoteAt(oldNotes, changed[i]),
             newNote |-> NoteAt(newNotes, changed[i])]]

\* the customers of both documents, in the order of allCustomerKeys
CustomersOfBoth(old, new) ==
    SelectSeq(Distinct(KeysOf(old.customers) \o KeysOf(new.customers)),
              LAMBDA k : /\ FindByKey(old.customers, k).some
                         /\ FindByKey(new.customers, k).some)

\* the changes of one kind ("flags" or "notes") over the customers of both
\* documents and the products of their configurations
ConfigurationChanges(old, new, kind) ==
    LET custs == CustomersOfBoth(old, new)
    IN  Concat([i \in 1..Len(custs) |->
            LET custKey == custs[i]
                customerName == FindByKey(new.customers, custKey).val.name
                allProducts == AllKeys(ConfigOrEmpty(old, custKey),
                                       ConfigOrEmpty(new, custKey))
            IN  Concat([j \in 1..Len(allProducts) |->
                    IF kind = "flags"
                    THEN FlagChangesOf(old, new, custKey, customerName,
                                       allProducts[j])
                    ELSE NoteChangesOf(old, new, custKey, customerName,
                                       allProducts[j])])])

detectChanges(oldData, newData) ==
    IF ~oldData.some \/ ~newData.some THEN NoChanges
    ELSE LET old == oldData.val
             new == newData.val
             oldFlagKeys == DefinedFlagKeys(old.flagDefinitions)
             newFlagKeys == DefinedFlagKeys(new.flagDefinitions)
         IN  [productsAdded |-> MissingFrom(new.products, old.products),
              productsRemoved |-> MissingFrom(old.products, new.products),
              customersAdded |-> MissingFrom(new.customers, old.customers),
              customersRemoved |-> MissingFrom(old.customers, new.customers),
              customerProductChanges |->
                 Concat([i \in 1..Len(new.customers) |->
                    LET oldCust == FindByKey(old.customers,
                                             new.customers[i].key)
                    IN  IF ~oldCust.some THEN <<>>
                        ELSE ProductChangeOf(oldCust.val, new.customers[i])]),
              flagsAdded |->
                 SelectSeq(newFlagKeys,
                           LAMBDA k : ~SeqIncludes(oldFlagKeys, k)),
              flagsRemoved |->
                 SelectSeq(oldFlagKeys,
                           LAMBDA k : ~SeqIncludes(newFlagKeys, k)),
              configChanges |-> ConfigurationChanges(old, new, "flags"),
              noteChanges |-> ConfigurationChanges(old, new, "notes")]

hasChanges(changes) ==
    \/ Len(changes.customersAdded) > 0
    \/ Len(changes.customersRemoved) > 0
    \/ Len(changes.productsAdded) > 0
    \/ Len(changes.productsRemoved) > 0
    \/ Len(changes.flagsAdded) > 0
    \/ Len(changes.flagsRemoved) > 0
    \/ Len(changes.configChanges) > 0
    \/ Len(changes.noteChanges) > 0
    \/ Len(changes.customerProductChanges) > 0


-----------------------------------------------------------------------------
(* changelog.js: the formatters. The rules, arrows, dashes, code quotes and
   pictographs of the literals are written in ASCII. *)

formatValue(val) ==
    CASE val = "true" -> "Enabled"
      [] val = "false" -> "Disabled"
      [] val = "undefined" -> "-"
      [] OTHER -> val

formatValueShort(val) ==
    CASE val = "true" -> "Y"
      [] val = "false" -> "N"
      [] val = "undefined" -> "-"
      [] OTHER -> val

\* a section of the changelog: nothing for an empty list, otherwise the
\* title, a line per element and an empty line
Section(title, entries) ==
    IF entries = <<>> THEN <<>> ELSE <<title>> \o entries \o <<"">>

\* the configuration changes grouped by customer and product, the groups in
\* the order of their first change
ConfigGroups(configChanges) ==
    LET groupOf(c) == c.customer \o " / " \o c.product
        groups == Distinct([i \in 1..Len(configChanges) |->
                              groupOf(configChanges[i])])
    IN  Concat([g \in 1..Len(groups) |->
            LET items == SelectSeq(configChanges,
                                   LAMBDA c : groupOf(c) = groups[g])
            IN  <<"  " \o groups[g] \o ":">>
                \o [i \in 1..Len(items) |->
                      "    " \o items[i].flag \o ": "
                      \o formatValue(items[i].oldValue) \o " -> "
                      \o formatValue(items[i].newValue)]
                \o <<"">>])

\* the line of a note change
NoteLine(n) ==
    "  " \o n.customer \o " / " \o n.flag \o ": "
    \o (IF n.newNote # "" /\ n.oldNote = "" THEN "added note"
        ELSE IF n.newNote = "" /\ n.oldNote # "" THEN "removed note"
        ELSE "updated note")

\* the lines of the customer product changes
ProductChangeLines(cps) ==
    Concat([i \in 1..Len(cps) |->
        (IF cps[i].added # <<>>
         THEN <<"  " \o cps[i].customer \o ": + "
                \o JoinStr(cps[i].added, ", ")>>
         ELSE <<>>)
        \o (IF cps[i].removed # <<>>
            THEN <<"  " \o cps[i].customer \o ": - "
                   \o JoinStr(cps[i].removed, ", ")>>
            ELSE <<>>)])

\* the total the summary line reports
totalChanges(changes) ==
    Len(changes.configChanges) + Len(changes.noteChanges)
    + Len(changes.flagsAdded) + Len(changes.flagsRemoved)
    + Len(changes.customersAdded) + Len(changes.customersRemoved)

\* the summary line
SummaryLine(n) == "--- " \o ToString(n) \o " total change(s) ---"

\* the lines of the changelog
ChangelogLines(changes, oldRef, newRef, today) ==
    <<"=======================================================",
      "  FEATURE FLAG CHANGELOG",
      "  " \o (IF oldRef # "" THEN oldRef ELSE "previous") \o " -> "
           \o (IF newRef # "" THEN newRef ELSE "current"),
      "  " \o today,
      "=======================================================",
      "">>
    \o (IF ~hasChanges(changes) THEN <<"  No changes detected.">>
        ELSE Section("Products Added:",
                     [i \in 1..Len(changes.productsAdded) |->
                        "  + " \o changes.productsAdded[i].name])
             \o Section("Products Removed:",
                        [i \in 1..Len(changes.productsRemoved) |->
                           "  - " \o changes.productsRemoved[i].name])
             \o Section("Customers Added:",
                        [i \in 1..Len(changes.customersAdded) |->
                           "  + " \o changes.customersAdded[i].name \o " ("
                           \o JoinStr(changes.customersAdded[i].products, ", ")
                           \o ")"])
             \o Section("Customers Removed:",
                        [i \in 1..Len(changes.customersRemoved) |->
                           "  - " \o changes.customersRemoved[i].name])
             \o Section("Customer Product Changes:",
                        ProductChangeLines(changes.customerProductChanges))
             \o Section("New Flag Definitions:",
                        [i \in 1..Len(changes.flagsAdded) |->
                           "  + " \o changes.flagsAdded[i]])
             \o Section("Removed Flag Definitions:",
                        [i \in 1..Len(changes.flagsRemoved) |->
                           "  - " \o changes.flagsRemoved[i]])
             \o (IF changes.configChanges = <<>> THEN <<>>
                 ELSE <<"Configuration Changes:", "">>
                      \o ConfigGroups(changes.configChanges))
             \o Section("Note Changes:",
                        [i \in 1..Len(changes.noteChanges) |->
                           NoteLine(changes.noteChanges[i])])
             \o <<SummaryLine(totalChanges(changes))>>)

formatChangelog(changes, oldRef, newRef, today) ==
    JoinStr(ChangelogLines(changes, oldRef, newRef, today), "\n")

\* the section blocks of the configuration changes, one per customer, the
\* product that of the customer's first change
SlackConfigSections(configChanges) ==
    LET customers == Distinct([i \in 1..Len(configChanges) |->
                                 configChanges[i].customer])
    IN  [g \in 1..Len(customers) |->
            LET items == SelectSeq(configChanges,
                                   LAMBDA c : c.customer = customers[g])
            IN  [type |-> "section",
                 text |-> "*" \o customers[g] \o "* - " \o items[1].product
                    \o JoinStr([i \in 1..Len(items) |->
                          "\n"
                          \o (IF items[i].newValue = "true"
                              THEN ":large_green_circle:" ELSE ":red_circle:")
                          \o "  '" \o items[i].flag \o "': "
                          \o formatValueShort(items[i].oldValue) \o " -> "
                          \o formatValueShort(items[i].newValue)], "")]]

\* a section block with a title and a line per element; none for no element
SlackListSection(title, entries) ==
    IF entries = <<>> THEN <<>>
    ELSE <<[type |-> "section",
            text |-> title \o JoinStr([i \in 1..Len(entries) |->
                                         "\n" \o entries[i]], "")]>>

formatSlackMessage(changes, viewerUrl, today) ==
    [blocks |->
        <<[type |-> "header", text |-> "Feature Flag Update"],
          [type |-> "context",
           text |-> "*" \o today \o "* | "
                    \o ToString(Len(changes.configChanges))
                    \o " flag change(s)"],
          [type |-> "divider", text |-> ""]>>
        \o SlackConfigSections(changes.configChanges)
        \o SlackListSection("*New Customers*",
              [i \in 1..Len(changes.customersAdded) |->
                 ":hospital:  " \o changes.customersAdded[i].name \o " ("
                 \o JoinStr(changes.customersAdded[i].products, ", ") \o ")"])
        \o SlackListSection("*New Flags*",
              [i \in 1..Len(changes.flagsAdded) |->
                 ":new:  '" \o changes.flagsAdded[i] \o "'"])
        \o (IF viewerUrl # ""
            THEN <<[type |-> "divider", text |-> ""],
                   [type |-> "context",
                    text |-> "<" \o viewerUrl \o "|View Dashboard>"]>>
            ELSE <<>>)]


-----------------------------------------------------------------------------
(* changelog.js: main, and the step of deploy.sh that starts it *)

\* the argument lists the tool is started with from the command line
ChangelogArgs ==
    { <<>>, <<"--dry-run">>, <<"HEAD~1", "HEAD">>,
      <<"--dry-run", "v1">> }

\* SLACK_WEBHOOK_URL: unset, empty, a webhook address, a text that is no URL
WebhookValues ==
    { None, Some(""), Some("https://hooks.slack.com/services/T/B/x"),
      Some("hooks.slack.com") }

\* the day new Date() gives
Today == "2026-03-01"

VIEWER_URL == "https://feature-flag-app-pied.vercel.app/"

\* a.startsWith("--")
StartsWithDashes(a) == Len(a) >= 2 /\ SubSeq(a, 1, 2) = "--"

\* new URL(webhookUrl) accepts the text
ValidUrl(u) ==
    \/ (Len(u) > 8 /\ SubSeq(u, 1, 8) = "https://")
    \/ (Len(u) > 7 /\ SubSeq(u, 1, 7) = "http://")

\* the refs compared, by the arguments that are not options
RefsOf(args) ==
    LET filteredArgs == SelectSeq(args, LAMBDA a : ~StartsWithDashes(a))
    IN  IF Len(filteredArgs) = 2
        THEN [old |-> filteredArgs[1], new |-> filteredArgs[2]]
        ELSE IF Len(filteredArgs) = 1
        THEN [old |-> filteredArgs[1], new |-> "working tree"]
        ELSE [old |-> "HEAD", new |-> "working tree"]

\* the process before it has read anything
Started(at, args, webhook) ==
    [op |-> "changelog", at |-> at, args |-> args, webhook |-> webhook,
     dryRun |-> FALSE, oldRef |-> "", newRef |-> "",
     oldData |-> None, newData |-> None, changes |-> NoChanges,
     out |-> <<>>, err |-> <<>>, preview |-> None, posted |-> <<>>,
     exit |-> None]

InitChangelog ==
    /\ \E webhook \in WebhookValues :
          \/ \E args \in ChangelogArgs : call = Started("start", args, webhook)
          \/ call = Started("deploy", <<>>, webhook)
    /\ run = NoRun
    /\ customer = NoCustomer
    /\ customerConfig = None
    /\ pc = "call"
    /\ scenarioIdx = 1
    /\ productIdx = 1
    /\ stepNum = 0
    /\ rows = <<>>
    /\ csv = None
    /\ written = None
    /\ runs = 0

\* deploy.sh: the tool is started on the last commit if SLACK_WEBHOOK_URL is
\* not empty, and skipped with a warning otherwise
DeployNotifies ==
    /\ call.op = "changelog"
    /\ call.at = "deploy"
    /\ IF call.webhook.some /\ call.webhook.val # ""
       THEN call' = [call EXCEPT !.at = "start", !.args = <<"HEAD~1", "HEAD">>]
       ELSE call' = [call EXCEPT
                       !.at = "skipped",
                       !.out = <<"No SLACK_WEBHOOK_URL set. Skipping Slack notification.",
                                 "   Add it to .env.deploy to enable.">>]
    /\ UNCHANGED <<run, customer, customerConfig, pc, scenarioIdx, productIdx,
                   stepNum, rows, csv, written, runs>>

\* main reads the two documents: each read gives a document or null; a
\* missing document ends the process with status 1
ReadDocuments ==
    /\ call.op = "changelog"
    /\ call.at = "start"
    /\ \E oldData \in {None, Some(OldDocument)},
          newData \in {None} \cup { Some(d) : d \in NewDocuments } :
          LET refs == RefsOf(call.args)
              read == [call EXCEPT
                         !.dryRun = SeqIncludes(call.args, "--dry-run"),
                         !.oldRef = refs.old, !.newRef = refs.new,
                         !.oldData = oldData, !.newData = newData]
          IN  IF ~oldData.some
              THEN call' = [read EXCEPT
                              !.err = <<"Could not read feature-flags.json at ref: "
                                        \o refs.old>>,
                              !.exit = Some(1), !.at = "exited"]
              ELSE IF ~newData.some
              THEN call' = [read EXCEPT
                              !.err = <<"Could not read feature-flags.json at ref: "
                                        \o refs.new>>,
                              !.exit = Some(1), !.at = "exited"]
              ELSE call' = [read EXCEPT !.at = "read"]
    /\ UNCHANGED <<run, customer, customerConfig, pc, scenarioIdx, productIdx,
                   stepNum, rows, csv, written, runs>>

\* main detects the changes and prints the changelog; without changes the
\* process ends with status 0
PrintChangelog ==
    /\ call.op = "changelog"
    /\ call.at = "read"
    /\ LET changes == detectChanges(call.oldData, call.newData)
           printed == [call EXCEPT
                         !.changes = changes,
                         !.out = <<formatChangelog(changes, call.oldRef,
                                                   call.newRef, Today)>>]
       IN  IF ~hasChanges(changes)
           THEN call' = [printed EXCEPT !.exit = Some(0), !.at = "exited"]
           ELSE call' = [printed EXCEPT !.at = "printed"]
    /\ UNCHANGED <<run, customer, customerConfig, pc, scenarioIdx, productIdx,
                   stepNum, rows, csv, written, runs>>

\* mutant: the message is sent in a dry run too
Notify_IgnoresDryRun ==
    /\ call.op = "changelog"
    /\ call.at = "printed"
    /\ LET slackMsg == formatSlackMessage(call.changes, VIEWER_URL, Today)
       IN  IF ~call.webhook.some \/ call.webhook.val = ""
           THEN call' = [call EXCEPT
                           !.out = @ \o <<"Set SLACK_WEBHOOK_URL to enable Slack notifications.",
                                          "   Example: SLACK_WEBHOOK_URL=https://hooks.slack.com/services/T.../B.../xxx node changelog.js">>,
                           !.exit = Some(0), !.at = "exited"]
           ELSE IF ~ValidUrl(call.webhook.val)
           THEN call' = [call EXCEPT
                           !.err = <<"Slack notification failed: Invalid URL">>,
                           !.exit = Some(1), !.at = "exited"]
           ELSE call' = [call EXCEPT
                           !.posted = <<slackMsg>>, !.at = "awaiting"]
    /\ UNCHANGED <<run, customer, customerConfig, pc, scenarioIdx, productIdx,
                   stepNum, rows, csv, written, runs>>

\* main after the changelog: without a webhook address a hint and status 0;
\* in a dry run the preview of the message and status 0; otherwise the
\* message is sent, unless the address is no URL
Notify ==
    /\ call.op = "changelog"
    /\ call.at = "printed"
    /\ LET slackMsg == formatSlackMessage(call.changes, VIEWER_URL, Today)
       IN  IF ~call.webhook.some \/ call.webhook.val = ""
           THEN call' = [call EXCEPT
                           !.out = @ \o <<"Set SLACK_WEBHOOK_URL to enable Slack notifications.",
                                          "   Example: SLACK_WEBHOOK_URL=https://hooks.slack.com/services/T.../B.../xxx node changelog.js">>,
                           !.exit = Some(0), !.at = "exited"]
           ELSE IF call.dryRun
           THEN call' = [call EXCEPT
                           !.out = Append(@, "Dry run - Slack message preview:"),
                           !.preview = Some(slackMsg),
                           !.exit = Some(0), !.at = "exited"]
           ELSE IF ~ValidUrl(call.webhook.val)
           THEN call' = [call EXCEPT
                           !.err = <<"Slack notification failed: Invalid URL">>,
                           !.exit = Some(1), !.at = "exited"]
           ELSE call' = [call EXCEPT
                           !.posted = <<slackMsg>>, !.at = "awaiting"]
    /\ UNCHANGED <<run, customer, customerConfig, pc, scenarioIdx, productIdx,
                   stepNum, rows, csv, written, runs>>

\* the request ends: status 200, another status, or a transport error
SlackResponds ==
    /\ call.op = "changelog"
    /\ call.at = "awaiting"
    /\ \E outcome \in {"200", "500", "error"} :
          IF outcome = "200"
          THEN call' = [call EXCEPT
                          !.out = Append(@, "Slack notification sent."),
                          !.exit = Some(0), !.at = "exited"]
          ELSE call' = [call EXCEPT
                          !.err = <<"Slack notification failed: "
                                    \o (IF outcome = "500"
                                        THEN "Slack API returned 500: "
                                        ELSE "connect ECONNREFUSED")>>,
                          !.exit = Some(1), !.at = "exited"]
    /\ UNCHANGED <<run, customer, customerConfig, pc, scenarioIdx, productIdx,
                   stepNum, rows, csv, written, runs>>

NextChangelog ==
    \/ DeployNotifies
    \/ ReadDocuments
    \/ PrintChangelog
    \/ Notify
    \/ SlackResponds

SpecChangelog == InitChangelog /\ [][NextChangelog]_vars


-----------------------------------------------------------------------------
(* Reading a plan: helpers of the properties below *)

\* the indices of the plan's rows after the column-header row
DataIdx == 2..Len(rows)

\* the rows of Part 1: those before the first absence-section header
Part1Idx == { j \in DataIdx : \A k \in 2..j : rows[k][2] # "ABSENCE TESTS" }

\* the step-number cells of the numbered rows, in plan order
NumberedCells ==
    LET numbered == SelectSeq(rows, LAMBDA r : r[1] # "" /\ r # HeaderRow)
    IN  [k \in 1..Len(numbered) |-> numbered[k][1]]

\* the identifier cells of the rows of one section label, in plan order
IdentsOf(section) ==
    LET hit == SelectSeq(rows, LAMBDA r : r[2] = section)
    IN  [k \in 1..Len(hit) |-> hit[k][3]]

\* the scenario-header row that opens the block row j lies in (0 if none)
BlockHeaderOf(j) ==
    LET before == { k \in 2..j : rows[k][2] = "SCENARIO" }
    IN  IF before = {} THEN 0
        ELSE CHOOSE k \in before : \A m \in before : m <= k

\* the identifier a scenario's header row carries
HeaderIdent(scenario) == "=== " \o scenario.name \o " ==="

\* the rows of the block of a scenario
BlockIdx(scenario) ==
    { j \in Part1Idx : BlockHeaderOf(j) # 0
                       /\ rows[BlockHeaderOf(j)][3] = HeaderIdent(scenario) }

\* the scenarios the scenario loop has been through
DoneScenarios == 1..(scenarioIdx - 1)

\* the identifier a flag test's rows carry
FlagIdent(flag) == flag.name \o " [" \o flag.key \o "]"

\* the products the customer owns
Owned == { customer.products[i] : i \in 1..Len(customer.products) }

\* the value configured for a flag of a product: "undefined" when the
\* customer has no configuration, no block for the product, or no value
Configured(productKey, flagKey) ==
    IF ~customerConfig.some THEN "undefined"
    ELSE IF productKey \notin DOMAIN customerConfig.val THEN "undefined"
    ELSE IF flagKey \notin DOMAIN customerConfig.val[productKey].flags
    THEN "undefined"
    ELSE customerConfig.val[productKey].flags[flagKey]

\* the applicability rule of a scenario, as the contract states it
AppliesByContract(scenario) ==
    /\ scenario.product \in Owned
    /\ \/ ~scenario.requiredFlags.some
       \/ scenario.requiredFlags.val = <<>>
       \/ /\ customerConfig.some
          /\ scenario.product \in DOMAIN customerConfig.val
          /\ \A i \in 1..Len(scenario.requiredFlags.val) :
                Configured(scenario.product,
                           scenario.requiredFlags.val[i]) = "true"

\* the sub-sequence of the scenarios gone through that apply by contract
RECURSIVE ApplicableUpTo(_)
ApplicableUpTo(i) ==
    IF i = 0 THEN <<>>
    ELSE ApplicableUpTo(i - 1)
         \o (IF AppliesByContract(Scenarios[i]) THEN <<Scenarios[i]>>
             ELSE <<>>)

\* the keys of the flags of a list of flag tests
TestKeys(tests) == { tests[i].flag.key : i \in 1..Len(tests) }

\* the product keys getFlagTests is asked about: the catalog's and the
\* customer's
ProductKeys == { Products[i].key : i \in 1..Len(Products) } \cup Owned

-----------------------------------------------------------------------------
(* C1 *)

\* C1: the numbers shown on the numbered rows of a plan are 1, 2, 3, ... in
\* plan order: the first numbered row shows 1 and every later one shows one
\* more than the numbered row before it, through Part 1 and Part 2.
C1_StepNumbersConsecutive ==
    \A k \in 1..Len(NumberedCells) : NumberedCells[k] = ToString(k)

-----------------------------------------------------------------------------
(* C2 *)

\* C2: the step-number cell is blank on every scenario-header,
\* patient-setup, flag-verification-header, absence-section-header and
\* category sub-header row, and filled on every setup, core,
\* flag-verification and absence test row; a plan has no other data row.
C2_NumberCellByRowKind ==
    \A j \in DataIdx :
        LET r == rows[j]
        IN  \/ /\ r[2] \in {"SCENARIO", "PATIENT SETUP", "FLAG VERIFICATION",
                            "ABSENCE TESTS"}
               /\ r[1] = ""
            \/ /\ r[2] = "Absence Test" /\ r[6] = ""
               /\ r[1] = ""
            \/ /\ r[2] \in {"Setup", "Bayesian UI Test"}
               /\ r[1] # ""
            \/ /\ r[2] = "Flag Verification" /\ r[6] = "VERIFY"
               /\ r[1] # ""
            \/ /\ r[2] = "Absence Test" /\ r[6] = "VERIFY ABSENT"
               /\ r[1] # ""

\* a finished plan that holds a row of each of the nine kinds
C2_Witness ==
    /\ pc = "write"
    /\ \A section \in {"SCENARIO", "PATIENT SETUP", "FLAG VERIFICATION",
                       "ABSENCE TESTS", "Setup", "Bayesian UI Test",
                       "Flag Verification"} :
          \E j \in DataIdx : rows[j][2] = section
    /\ \E j \in DataIdx : rows[j][2] = "Absence Test" /\ rows[j][6] = ""
    /\ \E j \in DataIdx :
          rows[j][2] = "Absence Test" /\ rows[j][6] = "VERIFY ABSENT"

-----------------------------------------------------------------------------
(* C3 *)

\* C3: scenarioApplies(S, C, config) is true exactly when C.products
\* contains S.product and either S.requiredFlags is absent or empty, or C
\* has a configuration block for S.product in which every required flag is
\* exactly true.
C3_AppliesIffContract ==
    \A i \in 1..Len(Scenarios) :
        scenarioApplies(Scenarios[i], customer, customerConfig)
            <=> AppliesByContract(Scenarios[i])

\* the scenario loop has been through a scenario with required flags that
\* applies, one whose required flag is not configured, one whose required
\* flag is false and one of a product the customer does not own
C3_Witness ==
    /\ pc = "part2"
    /\ \E i, j, k, m \in DoneScenarios :
        /\ Scenarios[i].requiredFlags.some
        /\ Scenarios[i].requiredFlags.val # <<>>
        /\ scenarioApplies(Scenarios[i], customer, customerConfig)
        /\ Scenarios[j].product \in Owned
        /\ Scenarios[j].requiredFlags.some
        /\ \E f \in 1..Len(Scenarios[j].requiredFlags.val) :
              Configured(Scenarios[j].product,
                         Scenarios[j].requiredFlags.val[f]) = "undefined"
        /\ ~scenarioApplies(Scenarios[j], customer, customerConfig)
        /\ Scenarios[k].product \in Owned
        /\ Scenarios[k].requiredFlags.some
        /\ \E f \in 1..Len(Scenarios[k].requiredFlags.val) :
              Configured(Scenarios[k].product,
                         Scenarios[k].requiredFlags.val[f]) = "false"
        /\ ~scenarioApplies(Scenarios[k], customer, customerConfig)
        /\ Scenarios[m].product \notin Owned
        /\ ~scenarioApplies(Scenarios[m], customer, customerConfig)

-----------------------------------------------------------------------------
(* C4 *)

\* C4: Part 1 holds one block for each scenario gone through that applies,
\* in the order of the scenario catalog, and no row for a scenario that does
\* not apply: the scenario-header rows are those of the applicable
\* scenarios in catalog order, and every other Part 1 row lies in the block
\* of such a header and, when it names a scenario, names that one.
C4_BlocksAreTheApplicableScenarios ==
    /\ IdentsOf("SCENARIO") =
          [k \in 1..Len(ApplicableUpTo(scenarioIdx - 1)) |->
              HeaderIdent(ApplicableUpTo(scenarioIdx - 1)[k])]
    /\ \A j \in Part1Idx :
          /\ BlockHeaderOf(j) # 0
          /\ rows[j][2] \in {"PATIENT SETUP", "Setup", "Bayesian UI Test",
                             "FLAG VERIFICATION"}
                => rows[BlockHeaderOf(j)][3] = "=== " \o rows[j][3] \o " ==="
    /\ \A i \in DoneScenarios :
          ~AppliesByContract(Scenarios[i]) => BlockIdx(Scenarios[i]) = {}

\* Part 1 is over, with a scenario skipped between two blocks
C4_Witness ==
    /\ pc = "part2"
    /\ \E i, j, k \in DoneScenarios :
        /\ i < j /\ j < k
        /\ BlockIdx(Scenarios[i]) # {}
        /\ ~scenarioApplies(Scenarios[j], customer, customerConfig)
        /\ Scenarios[j].product \in Owned
        /\ BlockIdx(Scenarios[k]) # {}

-----------------------------------------------------------------------------
(* C5 *)

\* the flag applies to the product, as the contract states it
AppliesToProduct(flag, productKey) ==
    \/ flag.applicableProducts.all
    \/ productKey \in { flag.applicableProducts.list[i] :
                          i \in 1..Len(flag.applicableProducts.list) }

\* C5: getFlagTests puts a flag in `enabled` exactly when the flag applies
\* to the product, has a criteria entry with a whenEnabled list and is
\* configured exactly true, and in `disabled` exactly when it applies, has a
\* criteria entry with a whenDisabled list and is configured exactly false;
\* no flag is in both lists.
C5_FlagTestsIffContract ==
    \A p \in ProductKeys :
        LET tests == getFlagTests(customer, p, customerConfig)
        IN  \A w \in 1..Len(CatalogWalk) :
                LET flag == CatalogWalk[w].flag
                    entry == FlagTestCriteria(flag.key)
                IN  /\ flag.key \in TestKeys(tests.enabled)
                        <=> /\ AppliesToProduct(flag, p)
                            /\ entry.some
                            /\ entry.val.whenEnabled.some
                            /\ Configured(p, flag.key) = "true"
                    /\ flag.key \in TestKeys(tests.disabled)
                        <=> /\ AppliesToProduct(flag, p)
                            /\ entry.some
                            /\ entry.val.whenDisabled.some
                            /\ Configured(p, flag.key) = "false"
                    /\ ~(/\ flag.key \in TestKeys(tests.enabled)
                         /\ flag.key \in TestKeys(tests.disabled))

\* a finished plan of a customer with, for one owned product, an enabled
\* flag test, a disabled flag test, a flag with criteria that is not
\* configured and a configured flag without a criteria entry, the enabled and
\* the disabled test both showing in the plan
C5_Witness ==
    /\ pc = "write"
    /\ \E p \in Owned :
        LET tests == getFlagTests(customer, p, customerConfig)
        IN  /\ tests.enabled # <<>>
            /\ tests.disabled # <<>>
            /\ \E k \in FlagKeys :
                  FlagTestCriteria(k).some /\ Configured(p, k) = "undefined"
            /\ \E k \in FlagKeys :
                  ~FlagTestCriteria(k).some /\ Configured(p, k) = "true"
    /\ \E j \in DataIdx : rows[j][6] = "VERIFY"
    /\ \E j \in DataIdx : rows[j][6] = "VERIFY ABSENT"

-----------------------------------------------------------------------------
(* C6 *)

\* the flag's criteria entry defines only the side opposite to the value
\* configured for the product
OppositeSideOnly(flag, productKey) ==
    LET entry == FlagTestCriteria(flag.key)
    IN  /\ entry.some
        /\ \/ /\ entry.val.whenEnabled.some
              /\ ~entry.val.whenDisabled.some
              /\ Configured(productKey, flag.key) = "false"
           \/ /\ entry.val.whenDisabled.some
              /\ ~entry.val.whenEnabled.some
              /\ Configured(productKey, flag.key) = "true"

\* C6: a flag whose criteria entry defines only the side opposite to its
\* configured value is in neither bucket of getFlagTests for that product,
\* and a plan has no flag-verification row and no absence row for a flag that
\* is so configured for every product the customer owns.
C6_OppositeSideYieldsNoTest ==
    \A w \in 1..Len(CatalogWalk) :
        LET flag == CatalogWalk[w].flag
        IN  /\ \A p \in ProductKeys :
                  OppositeSideOnly(flag, p) =>
                      LET tests == getFlagTests(customer, p, customerConfig)
                      IN  /\ flag.key \notin TestKeys(tests.enabled)
                          /\ flag.key \notin TestKeys(tests.disabled)
            /\ (\A p \in Owned : OppositeSideOnly(flag, p)) =>
                  \A j \in DataIdx : rows[j][3] # FlagIdent(flag)

\* a finished plan with flag-verification rows and absence rows, of a
\* customer for whom a flag with whenEnabled criteria only is false and a
\* flag with whenDisabled criteria only is true
C6_Witness ==
    /\ pc = "write"
    /\ Owned # {}
    /\ \E w, x \in 1..Len(CatalogWalk) :
        /\ FlagTestCriteria(CatalogWalk[w].flag.key).some
        /\ FlagTestCriteria(CatalogWalk[w].flag.key).val.whenEnabled.some
        /\ FlagTestCriteria(CatalogWalk[x].flag.key).some
        /\ FlagTestCriteria(CatalogWalk[x].flag.key).val.whenDisabled.some
        /\ \A p \in Owned :
              /\ OppositeSideOnly(CatalogWalk[w].flag, p)
              /\ OppositeSideOnly(CatalogWalk[x].flag, p)
    /\ \E j \in DataIdx : rows[j][6] = "VERIFY"
    /\ \E j \in DataIdx : rows[j][6] = "VERIFY ABSENT"

-----------------------------------------------------------------------------
(* C7 *)

\* the identifier the absence-section header of a product carries
AbsenceIdent(productKey) == AbsenceHeaderRow(productKey)[3]

\* the identifiers of the absence sections of the products of a list that
\* have a disabled flag test, in the order of the list
AbsenceIdentsOf(productKeys) ==
    LET withTests ==
            SelectSeq(productKeys,
                      LAMBDA p : getFlagTests(customer, p,
                                              customerConfig).disabled # <<>>)
    IN  [k \in 1..Len(withTests) |-> AbsenceIdent(withTests[k])]

\* C7 as stated: Part 2 of a finished plan lists the absence sections in the
\* order of the product catalog, whatever the order of the customer's own
\* products list.
C7_AbsenceSectionsInCatalogOrder ==
    pc = "write" =>
        IdentsOf("ABSENCE TESTS")
            = AbsenceIdentsOf(OwnedInCatalogOrder(customer, 1))

\* C7 as amended: Part 2 lists the absence sections in the order of the
\* customer's own products list: after each iteration of the product loop
\* the section headers are those of the products gone through that have a
\* disabled flag test, in the order of customer.products.
C7_AbsenceSectionsInCustomerOrder ==
    IdentsOf("ABSENCE TESTS")
        = AbsenceIdentsOf(SubSeq(customer.products, 1, productIdx - 1))

\* a finished plan with two absence sections, of a customer whose products
\* list is not in catalog order
C7_Witness ==
    /\ pc = "write"
    /\ customer.products # OwnedInCatalogOrder(customer, 1)
    /\ Len(IdentsOf("ABSENCE TESTS")) = 2

-----------------------------------------------------------------------------
(* C8 *)

\* the scenario key matches none of the rules of the relevance gate
NoRuleMatches(key) ==
    /\ ~StrIncludes(key, "sepsis_ed")
    /\ ~StrIncludes(key, "septic_shock")
    /\ key \notin {"no_sepsis_no_infection", "abx_workflow",
                   "comfort_care_suppression", "septic_shock_rnf_to_icu"}

-----------------------------------------------------------------------------
(* C9 *)

\* the scenario key denotes a full-flow scenario
FullFlow(key) ==
    StrIncludes(key, "sepsis_ed") \/ StrIncludes(key, "septic_shock")

-----------------------------------------------------------------------------
(* C10 *)

\* C10: generating a customer's plan again from the same documents and the
\* same customer key yields the output of the run before, character for
\* character: what a later run returns equals the file the run before wrote.
C10_RerunYieldsSameOutput ==
    (pc = "write" /\ written.some) => csv = written

\* a second run has returned a plan with numbered rows of both parts
C10_Witness ==
    /\ pc = "write"
    /\ runs = 2
    /\ written.some
    /\ \E j \in DataIdx : rows[j][6] = "VERIFY"
    /\ \E j \in DataIdx : rows[j][6] = "VERIFY ABSENT"

-----------------------------------------------------------------------------
(* C11: a customer's plan does not depend on the rest of the run *)

\* C11: the plan generateTestPlan returns for a customer equals the plan an
\* earlier launch left in that customer's file, whatever the arguments and
\* the customer order of the two launches were: in particular the plan of a
\* run over all customers equals the plan of a run filtered to the customer,
\* step numbers included
C11_PlanIndependentOfRun ==
    (pc = "write" /\ PlanFileName(customer.key) \in DOMAIN run.disk)
        => csv.val = run.disk[PlanFileName(customer.key)]

\* a launch filtered to one customer has returned a plan with numbered rows
\* for it, after a launch over all customers in which that customer's plan
\* was not the first
C11_Witness ==
    /\ pc = "write"
    /\ run.filterCustomer = Some(customer.key)
    /\ Len(run.before) = Len(CustomerList)
    /\ run.before[1] # PlanFileName(customer.key)
    /\ PlanFileName(customer.key) \in DOMAIN run.disk
    /\ stepNum > 1

-----------------------------------------------------------------------------
(* C12: customers that differ in their vendor only *)

\* the texts the generator hands to resolveEhrTerms: the action and expected
\* templates of the scenarios' steps after profile substitution, and the
\* step texts of the criteria catalog
StepTextsOf(scenario) ==
    UNION { { resolveTemplateVars(step.action, scenario),
              resolveTemplateVars(step.expected, scenario) } :
            step \in { scenario.setupSteps[i] :
                         i \in 1..Len(scenario.setupSteps) }
                     \cup { scenario.coreTestSteps[i] :
                              i \in 1..Len(scenario.coreTestSteps) } }

CriteriaTextsOf(entry) ==
    IF entry.some
    THEN { entry.val[i].step : i \in 1..Len(entry.val) } ELSE {}

TerminologyTexts ==
    UNION { StepTextsOf(Scenarios[i]) : i \in 1..Len(Scenarios) }
    \cup UNION { IF FlagTestCriteria(k).some
                 THEN CriteriaTextsOf(FlagTestCriteria(k).val.whenEnabled)
                      \cup CriteriaTextsOf(FlagTestCriteria(k).val.whenDisabled)
                 ELSE {} : k \in FlagKeys }

\* the fixed expected-result literals
ExpectedLiterals == {"VERIFY", "VERIFY ABSENT"}

\* two cells are equal or are the same text resolved for the two vendors
SameUpToTerminology(x, y, ehrX, ehrY) ==
    \/ x = y
    \/ \E t \in TerminologyTexts :
          x = resolveEhrTerms(t, ehrX) /\ y = resolveEhrTerms(t, ehrY)

\* the pairs of customers of the run that differ in their vendor only and
\* whose plans have both been returned
VendorTwins ==
    { <<i, j>> \in (1..Len(run.customers)) \X (1..Len(run.customers)) :
        LET a == run.customers[i]
            b == run.customers[j]
        IN  /\ a.ehr # b.ehr
            /\ a.products = b.products
            /\ run.configurations[a.key] = run.configurations[b.key]
            /\ a.key \in DOMAIN run.plans
            /\ b.key \in DOMAIN run.plans }

\* C12: the plans of two customers that differ in their EHR vendor only
\* have the same number of rows and, row by row, the same step number,
\* section, identifier, role label, fixed expected literal and blank
\* columns; a description or expected cell differs only as one text resolved
\* with the terms of the two vendors
C12_VendorChangesTerminologyOnly ==
    \A pair \in VendorTwins :
        LET a == run.customers[pair[1]]
            b == run.customers[pair[2]]
            ra == run.plans[a.key]
            rb == run.plans[b.key]
        IN  /\ Len(ra) = Len(rb)
            /\ \A j \in 1..Len(ra) :
                  /\ \A col \in {1, 2, 3, 4, 7, 8, 9} : ra[j][col] = rb[j][col]
                  /\ (ra[j][6] \in ExpectedLiterals
                        \/ rb[j][6] \in ExpectedLiterals)
                       => ra[j][6] = rb[j][6]
                  /\ SameUpToTerminology(ra[j][5], rb[j][5], a.ehr, b.ehr)
                  /\ SameUpToTerminology(ra[j][6], rb[j][6], a.ehr, b.ehr)

\* the plans of two such customers are both returned, hold a numbered
\* scenario step, a flag verification row and an absence row, and differ in
\* a description cell
C12_Witness ==
    \E pair \in VendorTwins :
        LET ra == run.plans[run.customers[pair[1]].key]
            rb == run.plans[run.customers[pair[2]].key]
        IN  /\ \E j \in 1..Len(ra) :
                  /\ ra[j][2] = "Bayesian UI Test"
                  /\ ra[j][1] # NoNum
                  /\ ra[j][5] # rb[j][5]
            /\ \E j \in 1..Len(ra) :
                  ra[j][6] = "VERIFY" /\ ra[j][5] # rb[j][5]
            /\ \E j \in 1..Len(ra) : ra[j][6] = "VERIFY ABSENT"

-----------------------------------------------------------------------------
(* C13: a scenario without a patient profile *)

\* the patient-profile tokens
ProfileTokens ==
    <<"{chiefComplaint}", "{diagnosis}", "{labOrders}", "{labResults}",
      "{problemList}", "{medicalHistory}", "{antibiotics}">>

\* the text with the first k patient-profile tokens replaced by the empty
\* string
RECURSIVE WithoutTokens(_, _)
WithoutTokens(text, k) ==
    IF k = 0 THEN text
    ELSE ReplaceAll(WithoutTokens(text, k - 1), ProfileTokens[k], "")

\* the rows of a section within the block of a scenario, in plan order
BlockRowsOf(scenario, section) ==
    LET idx == BlockIdx(scenario)
        hit == { j \in idx : rows[j][2] = section }
    IN  [k \in 1..Cardinality(hit) |->
            rows[CHOOSE j \in hit :
                    Cardinality({ m \in hit : m <= j }) = k]]

\* the rows of a step list are one per step, the texts with every profile
\* token replaced by the empty string and then resolved for the vendor
StepsShownWithoutProfile(scenario, steps, section) ==
    LET shown == BlockRowsOf(scenario, section)
    IN  /\ Len(shown) = Len(steps)
        /\ \A k \in 1..Len(steps) :
              /\ shown[k][5] =
                    resolveEhrTerms(
                        WithoutTokens(steps[k].action, Len(ProfileTokens)),
                        customer.ehr)
              /\ shown[k][6] =
                    resolveEhrTerms(
                        WithoutTokens(steps[k].expected, Len(ProfileTokens)),
                        customer.ehr)

\* C13: the block of an applicable scenario without patientProfile has no
\* patient-setup row, one row per setup step and one row per core step, and
\* in these rows every patient-profile token of the action and expected
\* templates is replaced by the empty string
C13_NoProfileBlock ==
    \A i \in DoneScenarios :
        (AppliesByContract(Scenarios[i]) /\ ~Scenarios[i].patientProfile.some)
            => /\ BlockRowsOf(Scenarios[i], "PATIENT SETUP") = <<>>
               /\ StepsShownWithoutProfile(Scenarios[i],
                                           Scenarios[i].setupSteps, "Setup")
               /\ StepsShownWithoutProfile(Scenarios[i],
                                           Scenarios[i].coreTestSteps,
                                           "Bayesian UI Test")

\* the block of a scenario without profile is in the plan, with a setup row
\* and a core row whose templates hold profile tokens
C13_Witness ==
    \E i \in DoneScenarios :
        /\ AppliesByContract(Scenarios[i])
        /\ ~Scenarios[i].patientProfile.some
        /\ Len(BlockRowsOf(Scenarios[i], "Setup")) > 0
        /\ Len(BlockRowsOf(Scenarios[i], "Bayesian UI Test")) > 0
        /\ \A k \in 1..Len(Scenarios[i].setupSteps) :
              /\ StrIncludes(Scenarios[i].setupSteps[k].action,
                             "{chiefComplaint}")
              /\ StrIncludes(Scenarios[i].setupSteps[k].expected,
                             "{labOrders}")

-----------------------------------------------------------------------------
(* C14, C15: vendors and terms the terminology table lacks *)

\* the six terminology tokens, in the order resolveEhrTerms replaces them
EhrTokens ==
    <<"flowsheet", "patientList", "alertFlag", "noteType", "orderEntry",
      "storyboard">>

TermOf(terms, name) ==
    CASE name = "flowsheet" -> terms.flowsheet
      [] name = "patientList" -> terms.patientList
      [] name = "alertFlag" -> terms.alertFlag
      [] name = "noteType" -> terms.noteType
      [] name = "orderEntry" -> terms.orderEntry
      [] name = "storyboard" -> terms.storyboard

\* the text with the first k tokens that have a term replaced by their
\* term, token after token, the tokens without a term left as they are
RECURSIVE ResolvedWhereKnown(_, _, _)
ResolvedWhereKnown(text, terms, k) ==
    IF k = 0 THEN text
    ELSE LET prev == ResolvedWhereKnown(text, terms, k - 1)
             term == TermOf(terms, EhrTokens[k])
         IN  IF term.some
             THEN ReplaceAll(prev, "{" \o EhrTokens[k] \o "}", term.val)
             ELSE prev

Incomplete(terms) ==
    \E k \in 1..Len(EhrTokens) : ~TermOf(terms, EhrTokens[k]).some

\* C15: with a vendor whose mapping has no term for a token,
\* resolveEhrTerms leaves every occurrence of that token as the literal
\* token text (and replaces the tokens that have a term)
C15_MissingTermLeavesToken ==
    (call.op = "resolve" /\ call.done >= 1
       /\ call.ehr \in DOMAIN EhrTerminology
       /\ Incomplete(EhrTerminology[call.ehr]))
        => call.once.val
             = ResolvedWhereKnown(call.text, EhrTerminology[call.ehr],
                                  Len(EhrTokens))

-----------------------------------------------------------------------------
(* C16, C17: resolving twice, resolving in the other order *)

\* the positions of a character in a text
PositionsOf(text, ch) == { i \in 1..Len(text) : SubSeq(text, i, i) = ch }

\* placeholders are not nested: between two opening braces of the text
\* there is a closing one
NotNested(text) ==
    \A i \in PositionsOf(text, "{"), j \in PositionsOf(text, "{") :
        i < j => \E k \in PositionsOf(text, "}") : i < k /\ k < j

\* a value holds no brace and no dollar sign
Plain(value) ==
    ~StrIncludes(value, "{") /\ ~StrIncludes(value, "}")
    /\ ~StrIncludes(value, "$")

\* the terms resolveEhrTerms selects for a vendor key
TermsFor(ehr) ==
    IF ehr \in DOMAIN EhrTerminology
    THEN EhrTerminology[ehr] ELSE EhrTerminology["Epic"]

PlainTerms(terms) ==
    \A k \in 1..Len(EhrTokens) : Plain(StringOf(TermOf(terms, EhrTokens[k])))

\* the values resolveTemplateVars takes from a scenario's profile
ProfileValues(scenario) ==
    IF scenario.patientProfile.some
    THEN LET profile == scenario.patientProfile.val
         IN  { OrElse(profile.chiefComplaint, ""),
               OrElse(profile.diagnosis, ""),
               OrElse(LabOrdersOf(profile), ""),
               OrElse(LabResultsOf(profile), ""),
               OrElse(profile.problemList, ""),
               OrElse(profile.medicalHistory, ""),
               OrElse(profile.antibiotics, "") }
    ELSE {""}

PlainProfile(scenario) == \A v \in ProfileValues(scenario) : Plain(v)

\* C16 as stated: for every text and vendor key, resolveEhrTerms applied to
\* its own result returns that result
C16_Idempotent ==
    (call.op = "resolve" /\ call.done >= 2) => call.twice.val = call.once.val

\* C16 amended: for every vendor key whose terms hold no brace and no dollar
\* sign, and every text whose placeholders are not nested, resolveEhrTerms
\* applied to its own result returns that result
C16_IdempotentOnPlainTerms ==
    (call.op = "resolve" /\ call.done >= 2
       /\ PlainTerms(TermsFor(call.ehr)) /\ NotNested(call.text))
        => call.twice.val = call.once.val

\* a text with two occurrences of a token and a placeholder left alone was
\* resolved twice with plain terms
C16_Witness ==
    /\ call.op = "resolve"
    /\ call.done >= 2
    /\ PlainTerms(TermsFor(call.ehr))
    /\ call.text = "{flowsheet}{diagnosis}{flowsheet}"
    /\ call.once.val # call.text

\* C17 as stated: for every text, scenario and vendor key, resolving the
\* profile tokens and then the terminology tokens gives what the other
\* order gives
C17_Commute ==
    (call.op = "resolve" /\ call.done >= 4)
        => call.profileFirst.val = call.ehrFirst.val

\* C17 amended: the two orders give the same text when no profile value and
\* no vendor term holds a brace or a dollar sign and the placeholders of the
\* text are not nested
C17_CommuteOnPlainValues ==
    (call.op = "resolve" /\ call.done >= 4
       /\ PlainTerms(TermsFor(call.ehr)) /\ PlainProfile(call.scenario)
       /\ NotNested(call.text))
        => call.profileFirst.val = call.ehrFirst.val

\* a text with a profile token and a terminology token was resolved in both
\* orders, with a profile that has the value and plain terms
C17_Witness ==
    /\ call.op = "resolve"
    /\ call.done >= 4
    /\ PlainTerms(TermsFor(call.ehr))
    /\ PlainProfile(call.scenario)
    /\ call.scenario.patientProfile.some
    /\ call.text = "{diagnosis}{flowsheet}"
    /\ ~StrIncludes(call.profileFirst.val, "{")

-----------------------------------------------------------------------------
(* C18: csvEscape and a reader of quoted CSV *)

\* the text with every double quote doubled, character by character
RECURSIVE Doubled(_)
Doubled(s) ==
    IF s = "" THEN ""
    ELSE (IF SubSeq(s, 1, 1) = "\"" THEN "\"\"" ELSE SubSeq(s, 1, 1))
         \o Doubled(SubSeq(s, 2, Len(s)))

\* a reader of quoted CSV, character by character: a comma ends a field
\* and a newline a record unless inside a quoted field; a field that begins
\* with a quote runs to its closing quote, two quotes in it standing for
\* one. cur is the field being read, rec the fields of the record being
\* read, recs the records read; quoted holds inside a quoted field, pending
\* after a quote in it that closes it unless another quote follows
ReaderStart ==
    [cur |-> "", quoted |-> FALSE, pending |-> FALSE, rec |-> <<>>,
     recs |-> <<>>]

ReadChar(st, c) ==
    IF st.quoted /\ ~st.pending
    THEN IF c = "\"" THEN [st EXCEPT !.pending = TRUE]
         ELSE [st EXCEPT !.cur = @ \o c]
    ELSE IF st.pending /\ c = "\""
    THEN [st EXCEPT !.cur = @ \o "\"", !.pending = FALSE]
    ELSE LET closed == [st EXCEPT !.quoted = FALSE, !.pending = FALSE]
         IN  CASE c = "," ->
                     [closed EXCEPT !.rec = Append(@, st.cur), !.cur = ""]
                [] c = "\n" ->
                     [closed EXCEPT !.recs = Append(@, Append(st.rec, st.cur)),
                                    !.rec = <<>>, !.cur = ""]
                [] c = "\"" /\ st.cur = "" /\ ~st.quoted ->
                     [closed EXCEPT !.quoted = TRUE]
                [] OTHER -> [closed EXCEPT !.cur = @ \o c]

\* the reader run over the characters lo..hi of a text, by halves, the
\* first half read to its end before the second is begun
RECURSIVE ReadText(_, _, _, _)
ReadText(s, lo, hi, st) ==
    IF lo > hi THEN st
    ELSE IF lo = hi THEN ReadChar(st, SubSeq(s, lo, lo))
    ELSE LET mid == (lo + hi) \div 2
             half == ReadText(s, lo, mid, st)
         IN  IF half.quoted \in BOOLEAN
             THEN ReadText(s, mid + 1, hi, half) ELSE half

\* the records of a CSV text
RecordsOf(text) ==
    LET end == ReadText(text, 1, Len(text), ReaderStart)
    IN  Append(end.recs, Append(end.rec, end.cur))

\* the field a value stands for: null and undefined as the empty field
FieldOf(val) == IF val.some THEN val.val ELSE ""

NeedsQuotes(s) ==
    \E i \in 1..Len(s) : SubSeq(s, i, i) \in {",", "\"", "\n"}

\* C18: csvEscape wraps a field in double quotes, its own quotes doubled,
\* exactly when it holds a comma, a quote or a newline, and returns it
\* unchanged otherwise, null and undefined as the empty field; a reader of
\* quoted CSV splits the written row into one record with the original
\* field values
C18_EscapeRoundTrips ==
    /\ (call.op = "csv" /\ call.done >= 1)
         => \A i \in 1..Len(call.values) :
               call.escaped.val[i] =
                  IF NeedsQuotes(FieldOf(call.values[i]))
                  THEN "\"" \o Doubled(FieldOf(call.values[i])) \o "\""
                  ELSE FieldOf(call.values[i])
    /\ (call.op = "csv" /\ call.done >= 2)
         => RecordsOf(call.line.val)
              = << [i \in 1..Len(call.values) |-> FieldOf(call.values[i])] >>

\* a row was written with a field holding a comma, a quote and a newline
\* together, next to a null value and a quote
C18_Witness ==
    /\ call.op = "csv"
    /\ call.done >= 2
    /\ ~call.values[1].some
    /\ call.values[3] = Some("\"")
    /\ \A c \in {",", "\"", "\n"} : StrIncludes(call.values[2].val, c)

-----------------------------------------------------------------------------
(* C19: the nine columns *)

\* number of columns of a plan
Columns == 9

\* C19: every row pushed has nine fields, the column-header row included,
\* and the last three fields of every row after it are empty; the written
\* file reads back as that many records of nine fields each, the last three
\* of every data record empty
C19_NineFieldsLastThreeEmpty ==
    /\ \A j \in 1..Len(rows) :
          /\ Len(rows[j]) = Columns
          /\ j > 1 => \A col \in {7, 8, 9} : rows[j][col] = ""
    /\ written.some =>
          LET records == RecordsOf(written.val)
          IN  /\ Len(records) = Len(rows)
              /\ \A j \in 1..Len(records) :
                    /\ Len(records[j]) = Columns
                    /\ j > 1 => \A col \in {7, 8, 9} : records[j][col] = ""

\* a plan is written with rows of every kind, one of them with a field
\* that is quoted in the file
C19_Witness ==
    /\ written.some
    /\ \A section \in {"SCENARIO", "PATIENT SETUP", "Setup",
                       "Bayesian UI Test", "FLAG VERIFICATION",
                       "Flag Verification", "ABSENCE TESTS", "Absence Test"} :
          \E j \in DataIdx : rows[j][2] = section
    /\ \E j \in DataIdx : rows[j][1] = NoNum /\ rows[j][2] = "Absence Test"
    /\ \E j \in DataIdx, col \in 1..Columns : StrIncludes(rows[j][col], ",")

-----------------------------------------------------------------------------
(* C20: the --customer filter *)

\* both input documents are there and parse: the run gets to the filter
DocumentsRead == run.docs.flags = "ok" /\ run.docs.tests = "ok"

\* the customers of the document the filter names
NamedByFilter ==
    { i \in 1..Len(run.customers) :
        run.filterCustomer.some
        /\ run.customers[i].key = run.filterCustomer.val }

\* C20: with both input documents read, a run whose --customer filter names
\* a key no customer has writes no
\* plan file and ends with an error message and exit status 1; a run whose
\* filter names a customer ends with status 0 having written exactly one
\* plan file, that customer's, for each customer matched
C20_FilterMissWritesNothing ==
    /\ (DocumentsRead /\ run.filterCustomer.some /\ NamedByFilter = {})
         => /\ run.wrote = <<>>
            /\ pc = "exited" => (run.exit = Some(1) /\ Len(run.errors) > 0)
    /\ (DocumentsRead /\ run.filterCustomer.some /\ NamedByFilter # {}
          /\ pc = "exited")
         => /\ run.exit = Some(0)
            /\ run.errors = <<>>
            /\ Len(run.wrote) = Cardinality(NamedByFilter)
            /\ { run.wrote[k] : k \in 1..Len(run.wrote) }
                 = { PlanFileName(run.customers[i].key) : i \in NamedByFilter }

\* a launch with a filter that names a customer has ended having written
\* that customer's file, after a launch with a filter that named nobody and
\* left the output directory empty
C20_Witness ==
    /\ pc = "exited"
    /\ DocumentsRead
    /\ run.launches = 2
    /\ run.before = <<>>
    /\ NamedByFilter # {}
    /\ run.exit = Some(0)
    /\ Len(run.wrote) = 1
    /\ DOMAIN run.disk = { run.wrote[1] }

-----------------------------------------------------------------------------
(* C21: input documents that cannot be read *)

\* C21: a run that finds an input document missing or unparseable writes no
\* plan file and makes no output directory, and ends with exit status 1
\* after reporting the error of the first such document and its expected
\* path
C21_UnreadableDocumentAborts ==
    (run.launches > 0 /\ (run.docs.flags # "ok" \/ run.docs.tests # "ok"))
        => /\ run.wrote = <<>>
           /\ ~run.mkdir
           /\ pc \in {"load", "loadTests", "exited"}
           /\ pc = "exited" =>
                /\ run.exit = Some(1)
                /\ run.errors =
                     IF run.docs.flags # "ok"
                     THEN << "Error reading feature flags: "
                               \o ErrMessage(run.docs.flags, FLAG_DATA_PATH),
                             "Expected at: " \o FLAG_DATA_PATH >>
                     ELSE << "Error reading test definitions: "
                               \o ErrMessage(run.docs.tests, TEST_DEF_PATH),
                             "Expected at: " \o TEST_DEF_PATH >>

\* a run has ended on an unparseable test-definition document, the
\* feature-flag document read, no output directory there
C21_Witness ==
    /\ pc = "exited"
    /\ run.docs = [flags |-> "ok", tests |-> "unparseable"]
    /\ run.exit = Some(1)
    /\ ~run.dir
    /\ Len(run.errors) = 2

-----------------------------------------------------------------------------
(* C22: when the plan files are written *)

\* C22: a plan file is written only once the plan of every selected
\* customer has been computed, and a run that ends with a failure has
\* written no plan file
C22_FilesWrittenOnlyAtEnd ==
    /\ run.wrote # <<>> => run.queue = <<>>
    /\ (pc = "exited" /\ run.exit = Some(1)) => run.wrote = <<>>


-----------------------------------------------------------------------------
(* C23: a customer without a configuration block *)

\* the products for which the customer has no configuration block: every
\* product when the customer has no configuration at all
Unconfigured ==
    { p \in ProductKeys : ~ProductConfigOf(customerConfig, p).some }

\* the scenario declares no required flag
NoRequiredFlags(scenario) ==
    ~scenario.requiredFlags.some \/ scenario.requiredFlags.val = <<>>

\* C23: for a product the customer has no configuration block for,
\* getFlagTests returns two empty lists; the plan holds a block for every
\* scenario gone through that belongs to an owned product and declares no
\* requiredFlags, no block of a scenario of that product holds a Flag
\* Verification header or row, and Part 2 holds no absence section of that
\* product.
C23_NoConfigurationBlock ==
    \A p \in Unconfigured :
        /\ getFlagTests(customer, p, customerConfig)
              = [enabled |-> <<>>, disabled |-> <<>>]
        /\ \A i \in DoneScenarios :
              Scenarios[i].product = p =>
                /\ (p \in Owned /\ NoRequiredFlags(Scenarios[i]))
                      => BlockIdx(Scenarios[i]) # {}
                /\ \A j \in BlockIdx(Scenarios[i]) :
                      rows[j][2] \notin {"FLAG VERIFICATION",
                                         "Flag Verification"}
        /\ \A k \in 1..Len(IdentsOf("ABSENCE TESTS")) :
              IdentsOf("ABSENCE TESTS")[k] # AbsenceIdent(p)

\* a finished plan of a customer configured for one of its two products
\* only: the configured product has an absence section, the other product
\* has a scenario block
C23_Witness ==
    /\ pc = "write"
    /\ customerConfig.some
    /\ \E p \in Owned \cap Unconfigured, q \in Owned \ Unconfigured :
          /\ \E i \in DoneScenarios :
                /\ Scenarios[i].product = p
                /\ BlockIdx(Scenarios[i]) # {}
          /\ \E k \in 1..Len(IdentsOf("ABSENCE TESTS")) :
                IdentsOf("ABSENCE TESTS")[k] = AbsenceIdent(q)


-----------------------------------------------------------------------------
(* C24: the order of the rows *)

\* the section labels of the rows of the block of a scenario, in plan order
BlockLabelsOf(scenario) ==
    LET idx == BlockIdx(scenario)
    IN  [k \in 1..Cardinality(idx) |->
            rows[CHOOSE j \in idx :
                    Cardinality({ m \in idx : m <= j }) = k][2]]

\* the section labels a block opens with, by the scenario's catalog entry
OpeningLabels(scenario) ==
    <<"SCENARIO">>
    \o (IF scenario.patientProfile.some THEN <<"PATIENT SETUP">> ELSE <<>>)
    \o [k \in 1..Len(scenario.setupSteps) |-> "Setup"]
    \o [k \in 1..Len(scenario.coreTestSteps) |-> "Bayesian UI Test"]

\* the step rows of a section of a block show the steps in catalog order
StepsInCatalogOrder(scenario, steps, section) ==
    LET shown == BlockRowsOf(scenario, section)
    IN  /\ Len(shown) = Len(steps)
        /\ \A k \in 1..Len(steps) :
              shown[k][5] = resolveEhrTerms(
                                resolveTemplateVars(steps[k].action, scenario),
                                customer.ehr)

\* the section labels of the rows of scenario blocks, and of Part 2
BlockLabels ==
    {"SCENARIO", "PATIENT SETUP", "Setup", "Bayesian UI Test",
     "FLAG VERIFICATION", "Flag Verification"}
AbsenceLabels == {"ABSENCE TESTS", "Absence Test"}

\* C24: the block of every applicable scenario is the scenario-header row,
\* the patient-setup row exactly when the scenario has a patientProfile, one
\* Setup row per setup step and then one Bayesian UI Test row per core step,
\* both in catalog order, and then either nothing or the Flag Verification
\* header followed by flag-verification rows only; and in the plan no row of
\* a scenario block comes after a row of an absence section.
C24_RowOrder ==
    /\ \A i \in DoneScenarios :
          LET s == Scenarios[i]
              labels == BlockLabelsOf(s)
              open == OpeningLabels(s)
          IN  labels # <<>> =>
                /\ Len(labels) >= Len(open)
                /\ SubSeq(labels, 1, Len(open)) = open
                /\ StepsInCatalogOrder(s, s.setupSteps, "Setup")
                /\ StepsInCatalogOrder(s, s.coreTestSteps, "Bayesian UI Test")
                /\ Len(labels) > Len(open) =>
                      /\ labels[Len(open) + 1] = "FLAG VERIFICATION"
                      /\ \A k \in (Len(open) + 2)..Len(labels) :
                            labels[k] = "Flag Verification"
    /\ \A j \in DataIdx :
          /\ rows[j][2] \in BlockLabels \cup AbsenceLabels
          /\ rows[j][2] \in AbsenceLabels =>
                \A k \in j..Len(rows) : rows[k][2] \in AbsenceLabels

\* a finished plan with an absence section and the block of a scenario that
\* has a patient profile, two setup steps, a core step and a Flag
\* Verification section
C24_Witness ==
    /\ pc = "write"
    /\ \E j \in DataIdx : rows[j][2] = "Absence Test"
    /\ \E i \in DoneScenarios :
          /\ Scenarios[i].patientProfile.some
          /\ Len(BlockRowsOf(Scenarios[i], "Setup")) >= 2
          /\ Len(BlockRowsOf(Scenarios[i], "Bayesian UI Test")) >= 1
          /\ Len(BlockRowsOf(Scenarios[i], "Flag Verification")) >= 1


-----------------------------------------------------------------------------
(* C25: the Flag Verification section *)

\* the enabled flag tests of the scenario's product whose category is in the
\* scenario's relevant-category set, in getFlagTests order
MatchingEnabled(scenario) ==
    SelectSeq(getFlagTests(customer, scenario.product, customerConfig).enabled,
              LAMBDA f : f.category \in relevantCategories(scenario))

\* identifier, text and expected result of the rows a list of flag tests
\* calls for: one per criterion, test by test, the text resolved for the
\* vendor only
RECURSIVE CriteriaShown(_, _)
CriteriaShown(tests, expected) ==
    IF tests = <<>> THEN <<>>
    ELSE [k \in 1..Len(Head(tests).criteria) |->
            <<FlagIdent(Head(tests).flag),
              resolveEhrTerms(Head(tests).criteria[k].step, customer.ehr),
              expected>>]
         \o CriteriaShown(Tail(tests), expected)

\* identifier, text and expected result of the rows of a sequence
ShownOf(rs) == [k \in 1..Len(rs) |-> <<rs[k][3], rs[k][5], rs[k][6]>>]

\* C25: the block of a scenario holds a Flag Verification header row if and
\* only if an enabled flag test of the scenario's product has a category of
\* the scenario's relevant-category set; the rows after the header are one
\* per criterion of each such flag test, in getFlagTests order, with the
\* expected result "VERIFY" and the criterion text resolved for the vendor
\* only.
C25_FlagVerificationSection ==
    \A i \in DoneScenarios :
        LET s == Scenarios[i]
        IN  BlockIdx(s) # {} =>
              /\ Len(BlockRowsOf(s, "FLAG VERIFICATION"))
                    = IF MatchingEnabled(s) # <<>> THEN 1 ELSE 0
              /\ ShownOf(BlockRowsOf(s, "Flag Verification"))
                    = CriteriaShown(MatchingEnabled(s), "VERIFY")

\* the block of a scenario with a diagnosis in its patient profile has
\* flag-verification rows of two flag tests, the text still holding the
\* {diagnosis} token
C25_Witness ==
    \E i \in DoneScenarios :
        LET shown == BlockRowsOf(Scenarios[i], "Flag Verification")
        IN  /\ Scenarios[i].patientProfile.some
            /\ Scenarios[i].patientProfile.val.diagnosis.some
            /\ Len(BlockRowsOf(Scenarios[i], "FLAG VERIFICATION")) = 1
            /\ Len(MatchingEnabled(Scenarios[i])) >= 2
            /\ Len(shown) > MaxCriteria
            /\ \A k \in 1..Len(shown) : StrIncludes(shown[k][5], "{diagnosis}")


-----------------------------------------------------------------------------
(* C26: the absence sections of Part 2 *)

\* the products the product loop has been through, in the customer's order
DoneProducts == SubSeq(customer.products, 1, productIdx - 1)

\* the disabled flag tests of a product
DisabledOf(productKey) ==
    getFlagTests(customer, productKey, customerConfig).disabled

\* the rows that open the absence section of a product
SectionStarts(productKey) ==
    { j \in DataIdx : /\ rows[j][2] = "ABSENCE TESTS"
                      /\ rows[j][3] = AbsenceIdent(productKey) }

\* the rows after the header at row j, up to the next section header
SectionBody(j) ==
    LET later == { k \in (j + 1)..Len(rows) : rows[k][2] = "ABSENCE TESTS" }
        last == IF later = {} THEN Len(rows)
                ELSE (CHOOSE k \in later : \A m \in later : k <= m) - 1
    IN  SubSeq(rows, j + 1, last)

\* identifier, text and expected result of the rows a list of disabled flag
\* tests calls for: a category sub-header before the first flag test and
\* before each one whose category differs from the previous one's, then one
\* row per criterion
RECURSIVE AbsenceShown(_, _)
AbsenceShown(tests, k) ==
    IF k > Len(tests) THEN <<>>
    ELSE (IF k = 1 \/ tests[k].category # tests[k - 1].category
          THEN << <<"--- " \o categoryLabel(tests[k].category) \o " ---",
                    "", "">> >>
          ELSE <<>>)
         \o CriteriaShown(<<tests[k]>>, "VERIFY ABSENT")
         \o AbsenceShown(tests, k + 1)

\* the category sub-header rows of a sequence of rows
SubHeadersOf(rs) ==
    SelectSeq(rs, LAMBDA r : r[2] = "Absence Test" /\ r[6] # "VERIFY ABSENT")

\* C26: Part 2 holds the absence section header of a product gone through
\* once if getFlagTests returns a disabled flag test for it and not at all
\* otherwise; the section's rows are a category sub-header before the first
\* flag test and before each flag test whose category differs from the
\* previous one's, and one row per criterion with the expected result
\* "VERIFY ABSENT"; every category of the disabled flag tests has exactly one
\* sub-header in the section.
C26_AbsenceSections ==
    \A i \in 1..Len(DoneProducts) :
        LET p == DoneProducts[i]
            tests == DisabledOf(p)
            starts == SectionStarts(p)
        IN  /\ Cardinality(starts) = IF tests # <<>> THEN 1 ELSE 0
            /\ \A j \in starts :
                  LET body == SectionBody(j)
                      heads == SubHeadersOf(body)
                  IN  /\ \A k \in 1..Len(body) : body[k][2] = "Absence Test"
                      /\ ShownOf(body) = AbsenceShown(tests, 1)
                      /\ \A k \in 1..Len(tests) :
                            Cardinality(
                              { h \in 1..Len(heads) :
                                  heads[h][3] = "--- "
                                     \o categoryLabel(tests[k].category)
                                     \o " ---" }) = 1
                      /\ Len(heads)
                            = Cardinality({ tests[k].category :
                                              k \in 1..Len(tests) })

\* a finished plan with the absence section of a product that has two
\* disabled flag tests of one category and a disabled flag test of another
\* category, and a product gone through that has no absence section
C26_Witness ==
    /\ pc = "write"
    /\ \E i \in 1..Len(DoneProducts) :
          LET tests == DisabledOf(DoneProducts[i])
          IN  /\ SectionStarts(DoneProducts[i]) # {}
              /\ \E a, b, c \in 1..Len(tests) :
                    /\ a < b /\ b < c
                    /\ tests[a].category = tests[b].category
                    /\ tests[b].category # tests[c].category
    /\ \E i \in 1..Len(DoneProducts) : SectionStarts(DoneProducts[i]) = {}


-----------------------------------------------------------------------------
(* C27: the order of the lists of getFlagTests *)

\* the position of a flag's category in the catalog, and of the flag among
\* the flags of its category
CategoryPos(flagKey) ==
    CHOOSE c \in 1..Len(FlagDefinitions) :
        \E i \in 1..Len(FlagDefinitions[c].flags) :
            FlagDefinitions[c].flags[i].key = flagKey
DefinitionPos(flagKey) ==
    CHOOSE i \in 1..Len(FlagDefinitions[CategoryPos(flagKey)].flags) :
        FlagDefinitions[CategoryPos(flagKey)].flags[i].key = flagKey

\* flag a comes before flag b in the catalog
CatalogBefore(a, b) ==
    \/ CategoryPos(a) < CategoryPos(b)
    \/ /\ CategoryPos(a) = CategoryPos(b)
       /\ DefinitionPos(a) < DefinitionPos(b)

\* a list of flag tests follows the catalog: a flag test of an earlier
\* position in the list is of a flag that comes earlier in the catalog, and
\* carries the category the flag is defined in
InCatalogOrder(tests) ==
    /\ \A a, b \in 1..Len(tests) :
          a < b => CatalogBefore(tests[a].flag.key, tests[b].flag.key)
    /\ \A a \in 1..Len(tests) :
          tests[a].category
              = FlagDefinitions[CategoryPos(tests[a].flag.key)].category

\* C27: for every product, the enabled list and the disabled list of
\* getFlagTests are in catalog order (earlier category first, definition
\* order within a category), and no flag appears twice in a list.
C27_ListsInCatalogOrder ==
    \A p \in ProductKeys :
        LET tests == getFlagTests(customer, p, customerConfig)
        IN  /\ InCatalogOrder(tests.enabled)
            /\ InCatalogOrder(tests.disabled)
            /\ Cardinality(TestKeys(tests.enabled)) = Len(tests.enabled)
            /\ Cardinality(TestKeys(tests.disabled)) = Len(tests.disabled)

\* a plan has been generated for a customer with a product whose enabled
\* list holds two flags of one category and a flag of a later category, and
\* a product whose disabled list does
C27_Witness ==
    /\ pc = "write"
    /\ \E p \in Owned :
          LET enabled == getFlagTests(customer, p, customerConfig).enabled
          IN  /\ Len(enabled) >= 3
              /\ enabled[1].category = enabled[2].category
              /\ enabled[2].category # enabled[3].category
    /\ \E p \in Owned : Len(DisabledOf(p)) >= 1


-----------------------------------------------------------------------------
(* C28: the summary counts and the plan *)

\* the customer of the customers document with the given key
CustomerOf(key) ==
    CHOOSE c \in { run.customers[i] : i \in 1..Len(run.customers) } :
        c.key = key

\* the configuration of a customer in the configurations document
ConfigurationOf(key) ==
    IF key \in DOMAIN run.configurations THEN run.configurations[key]
    ELSE None

\* the number of scenario-header rows of a plan
ScenarioHeadersIn(plan) ==
    Cardinality({ j \in 1..Len(plan) : plan[j][2] = "SCENARIO" })

\* the flag tests that have absence rows in a plan: the absence-section
\* header a row lies under, with the row's flag identifier
AbsenceTestsIn(plan) ==
    { <<CHOOSE k \in 1..j : /\ plan[k][2] = "ABSENCE TESTS"
                            /\ \A m \in (k + 1)..j :
                                  plan[m][2] # "ABSENCE TESTS",
        plan[j][3]>> :
        j \in { i \in 1..Len(plan) : plan[i][6] = "VERIFY ABSENT" } }

\* the disabled flag tests of the customer's products that have no
\* criterion, as product and flag key
EmptyDisabledTests(cust, config) ==
    { <<i, k>> \in (1..Len(cust.products)) \X FlagKeys :
        \E t \in 1..Len(getFlagTests(cust, cust.products[i], config).disabled) :
            LET test == getFlagTests(cust, cust.products[i], config).disabled[t]
            IN  test.flag.key = k /\ test.criteria = <<>> }

\* C28 as stated: for every customer a plan was written for, the reported
\* scenario count is the number of scenario-header rows of the plan and the
\* reported disabled-flag-test count is the number of distinct flag tests
\* that have absence rows in Part 2 of the plan.
C28_CountsAgreeWithPlan ==
    \A key \in DOMAIN run.stats :
        /\ run.stats[key].scenarioCount = ScenarioHeadersIn(run.plans[key])
        /\ run.stats[key].disabledFlagCount
              = Cardinality(AbsenceTestsIn(run.plans[key]))

\* C28 as amended: the reported scenario count is the number of
\* scenario-header rows of the plan, and the reported disabled-flag-test
\* count is the number of disabled flag tests getFlagTests returns over the
\* customer's products: the flag tests that have absence rows in Part 2 and
\* the disabled flag tests that have no criterion, hence no row.
C28_CountsAgreeWithLists ==
    \A key \in DOMAIN run.stats :
        LET cust == CustomerOf(key)
            config == ConfigurationOf(key)
        IN  /\ run.stats[key].scenarioCount
                  = ScenarioHeadersIn(run.plans[key])
            /\ run.stats[key].disabledFlagCount
                  = FlagCountFrom(1, cust, config, "disabled")
            /\ run.stats[key].disabledFlagCount
                  = Cardinality(AbsenceTestsIn(run.plans[key]))
                    + Cardinality(EmptyDisabledTests(cust, config))

\* the counts of a customer with two products were reported: fewer
\* scenarios than its products have, absence rows of several flag tests in
\* the plan and a disabled flag test without criteria
C28_Witness ==
    \E key \in DOMAIN run.stats :
        /\ Len(CustomerOf(key).products) = 2
        /\ run.stats[key].scenarioCount > 0
        /\ run.stats[key].scenarioCount
              < Cardinality({ i \in 1..Len(Scenarios) :
                    SeqIncludes(CustomerOf(key).products,
                                Scenarios[i].product) })
        /\ Cardinality(AbsenceTestsIn(run.plans[key])) >= 2
        /\ EmptyDisabledTests(CustomerOf(key), ConfigurationOf(key)) # {}


-----------------------------------------------------------------------------
(* C29: when the changelog tool posts to Slack *)

\* the changelog of the two documents read has been printed first
ChangelogPrinted ==
    /\ call.out # <<>>
    /\ call.out[1] = formatChangelog(detectChanges(call.oldData, call.newData),
                                     call.oldRef, call.newRef, Today)

\* C29: a message has been posted to Slack only if changes were detected,
\* SLACK_WEBHOOK_URL is set, --dry-run was not given and the changelog has
\* been printed; a run with --dry-run or without detected changes has posted
\* nothing; a run in which the old or the new document could not be read
\* has ended with a non-zero status, has printed nothing and has posted
\* nothing.
C29_PostsOnlyAfterChangelog ==
    /\ call.posted # <<>> =>
          /\ hasChanges(detectChanges(call.oldData, call.newData))
          /\ call.webhook.some /\ call.webhook.val # ""
          /\ ~SeqIncludes(call.args, "--dry-run")
          /\ ChangelogPrinted
    /\ (SeqIncludes(call.args, "--dry-run")
        \/ ~hasChanges(detectChanges(call.oldData, call.newData)))
          => call.posted = <<>>
    /\ (call.at \notin {"start", "deploy", "skipped"}
        /\ (~call.oldData.some \/ ~call.newData.some))
          => /\ call.at = "exited"
             /\ call.exit = Some(1)
             /\ call.out = <<>>
             /\ call.posted = <<>>

\* a run started by deploy.sh has printed the changelog of two documents
\* that differ, posted the message and ended with status 0
C29_Witness ==
    /\ call.at = "exited"
    /\ call.args = <<"HEAD~1", "HEAD">>
    /\ call.oldRef = "HEAD~1"
    /\ Len(call.changes.configChanges) > 0
    /\ Len(call.out) = 2
    /\ Len(call.posted) = 1
    /\ call.exit = Some(0)


-----------------------------------------------------------------------------
(* C30: the total of the summary line *)

\* the last line of the changelog printed
LastLine(text) ==
    LET cuts == { i \in 1..Len(text) : SubSeq(text, i, i) = "\n" }
        last == IF cuts = {} THEN 0
                ELSE CHOOSE i \in cuts : \A j \in cuts : j <= i
    IN  SubSeq(text, last + 1, Len(text))

\* C30: whenever hasChanges holds of the changes detected between the two
\* documents, the changelog printed ends with the summary line of a total of
\* at least 1.
C30_ChangesHaveAPositiveTotal ==
    (call.op = "changelog" /\ call.out # <<>> /\ hasChanges(call.changes))
        => /\ totalChanges(call.changes) >= 1
           /\ LastLine(call.out[1]) = SummaryLine(totalChanges(call.changes))

=============================================================================
